---------------------------- MODULE Spec2Model ----------------------------
(***************************************************************************)
(* A model of acons::ndarray (include/acons/ndarray.hpp): the layout       *)
(* strategies, the index/offset arithmetic, the owning array with its     *)
(* storage blocks, and the non-owning views.                               *)
(*                                                                         *)
(* C++ arrays are 0-indexed; the sequences of this module are 1-indexed,   *)
(* so axis a of the source is position a+1 of a shape/strides/offsets      *)
(* sequence here.  Flat storage positions keep the source's numbering:     *)
(* a block's memory is a function on 0..cap-1.                             *)
(***************************************************************************)
EXTENDS Integers, Sequences, FiniteSets, TLC

\* ------------------------------------------------------------------ bounds
\* Largest rank of the shapes the layout functions are applied to.
MaxRank == 3
\* Largest extent of an axis of those shapes.
MaxExtent == 3

\* Largest extent of an axis of an owning array's shape.
MaxDim == 2
\* Number of storage blocks the allocator hands out in one run.
MaxBlocks == 3
\* Largest number of items of one list of a nested literal.
MaxLitLen == 2
\* Number of operations on the owning arrays in one run.
MaxOps == 4
\* The operations of one run over two arrays.
MaxLifeOps == 3
\* The operations of one run over an array and its view.
MaxViewOps == 3
\* The operations of one run that builds an array from a literal.
MaxLitOps == 2
\* Largest step of a slice.
MaxStep == 2
\* The operations of one run that walks a view with an iterator.
MaxIterOps == 8
\* Bits of size_t in the model: unsigned arithmetic wraps at 2^SizeBits.
SizeBits == 16
\* Iterations after which a comparison loop is taken not to terminate.
MaxCompare == 8
\* The operations of one run that builds an array from a deeply nested literal.
MaxDeepOps == 1

\* The rank the ndarray template is instantiated with (template parameter N).
N == 2
\* data_(nullptr)
NullPtr == 0

VARIABLES
    \* --- the owning arrays and the allocator's blocks
    order,      \* the Order template parameter of every array and view
    origin,     \* Base::origin() of every array and view
    heap,       \* block id -> [st, cap, mem, rel]: the allocator's blocks
    arr,        \* array id -> the ndarray object's members and lifetime
    nops,       \* operations the run has left
    last,       \* the last operation, its arguments and the state before it
    \* --- layout functions applied to drawn inputs (SpecLayout)
    lshape,     \* the shape handed to calculate_strides
    lorder,     \* "row_major" or "column_major"
    lorigin,    \* Base::origin(): 0 (zero_based) or 1 (one_based)
    lstrides,   \* the strides calculate_strides wrote
    lsize,      \* the size calculate_strides wrote
    lpc,        \* "init" before the call, "done" after it
    \* --- the view over array 1 (SpecView)
    view,       \* the ndarray_view object's members and constructor arguments
    view2,      \* a second view object, built from view or from array 1
    iter        \* an iterator over view: row_major_iterator / column_major_iterator

layoutVars == <<lshape, lorder, lorigin, lstrides, lsize, lpc>>

arrayVars == <<order, origin, heap, arr, nops, last>>

viewVars == <<view, view2>>

iterVars == <<iter>>

vars == <<arrayVars, layoutVars, viewVars, iterVars>>

\* ------------------------------------------------------------ small helpers
Orders == {"row_major", "column_major"}

\* zero_based::origin() and one_based::origin()
Origins == {0, 1}

Min(a, b) == IF a <= b THEN a ELSE b

RECURSIVE Product(_)
Product(s) == IF s = <<>> THEN 1 ELSE Head(s) * Product(Tail(s))

RECURSIVE Sum(_)
Sum(s) == IF s = <<>> THEN 0 ELSE Head(s) + Sum(Tail(s))

Fill(n, v) == [k \in 1..n |-> v]

\* ------------------------------------------------------- Base (origin policy)
\* A rebasing that leaves every index as it is, whatever the origin.
rebase_to_zero_unshifted(org, index) == index

\* zero_based::rebase_to_zero / one_based::rebase_to_zero
rebase_to_zero(org, index) == index - org

\* ----------------------------------------------------------- get_offset
\* get_offset(strides, indices): the loop over the M <= N given indices.
RECURSIVE get_offset_loop(_, _, _, _, _)
get_offset_loop(org, strides, indices, i, offset) ==
    IF i >= Len(indices) THEN offset
    ELSE get_offset_loop(org, strides, indices, i + 1,
             offset + rebase_to_zero(org, indices[i + 1]) * strides[i + 1])

get_offset(org, strides, indices) ==
    get_offset_loop(org, strides, indices, 0, 0)

\* get_offset(strides, offsets, indices): the same loop through a view's offsets.
RECURSIVE get_offset_offs_loop(_, _, _, _, _, _)
get_offset_offs_loop(org, strides, offsets, indices, i, offset) ==
    IF i >= Len(indices) THEN offset
    ELSE get_offset_offs_loop(org, strides, offsets, indices, i + 1,
             offset + (offsets[i + 1]
                       + rebase_to_zero(org, indices[i + 1]) * strides[i + 1]))

\* The view's offset arithmetic landing one cell further.
get_offset_offs_shifted(org, strides, offsets, indices) ==
    get_offset_offs_loop(org, strides, offsets, indices, 0, 0) + 1

\* get_offset<N,N,Base>(strides, offsets, indices)
get_offset_offs(org, strides, offsets, indices) ==
    get_offset_offs_loop(org, strides, offsets, indices, 0, 0)

\* ------------------------------------------------------- Layout strategies
\* row_major::calculate_strides: for (i = 0; i < N; ++i)
\*     { strides[N-i-1] = size; size *= shape[N-i-1]; }
RECURSIVE row_major_loop(_, _, _, _)
row_major_loop(shape, strides, size, i) ==
    IF i >= Len(shape) THEN [strides |-> strides, size |-> size]
    ELSE row_major_loop(shape,
                        [strides EXCEPT ![Len(shape) - i] = size],
                        size * shape[Len(shape) - i],
                        i + 1)

\* A row-major loop that multiplies by the extent of the axis it is about to
\* write instead of the one it has just written.
RECURSIVE row_major_loop_shifted(_, _, _, _)
row_major_loop_shifted(shape, strides, size, i) ==
    IF i >= Len(shape) THEN [strides |-> strides, size |-> size]
    ELSE row_major_loop_shifted(shape,
                        [strides EXCEPT ![Len(shape) - i] = size],
                        size * (IF i + 1 < Len(shape)
                                THEN shape[Len(shape) - i - 1]
                                ELSE shape[Len(shape)]),
                        i + 1)

row_major_calculate_strides_shifted(shape) ==
    row_major_loop_shifted(shape, Fill(Len(shape), 0), 1, 0)

\* row_major::calculate_strides(shape, strides, size)
row_major_calculate_strides(shape) ==
    row_major_loop(shape, Fill(Len(shape), 0), 1, 0)

\* column_major::calculate_strides: for (i = 0; i < N; ++i)
\*     { strides[i] = size; size *= shape[i]; }
RECURSIVE column_major_loop(_, _, _, _)
column_major_loop(shape, strides, size, i) ==
    IF i >= Len(shape) THEN [strides |-> strides, size |-> size]
    ELSE column_major_loop(shape,
                           [strides EXCEPT ![i + 1] = size],
                           size * shape[i + 1],
                           i + 1)

\* Column-major strides computed in the row-major direction.
column_major_calculate_strides_reversed(shape) ==
    row_major_loop(shape, Fill(Len(shape), 0), 1, 0)

\* column_major::calculate_strides(shape, strides, size)
column_major_calculate_strides(shape) ==
    column_major_loop(shape, Fill(Len(shape), 0), 1, 0)

\* Order::calculate_strides for the array's or view's Order parameter.
calculate_strides(ord, shape) ==
    IF ord = "row_major" THEN row_major_calculate_strides(shape)
    ELSE column_major_calculate_strides(shape)

\* The index tuples in range for a shape under an origin policy.
IndexTuples(org, shape) ==
    {idx \in [1..Len(shape) -> org..(org + MaxExtent)] :
        \A k \in 1..Len(shape) : idx[k] < org + shape[k]}

\* The layout inputs while another specification runs.
LayoutIdle ==
    /\ lshape = <<>>
    /\ lorder = "row_major"
    /\ lorigin = 0
    /\ lstrides = <<>>
    /\ lsize = 0
    /\ lpc = "off"


\* ------------------------------------------------------------ the allocator
\* The element values of the model.
Values == {0, 1}
\* T(): the value resize and the shape-only constructor fill with by default.
DefaultValue == CHOOSE v \in Values : \A w \in Values : v <= w
\* The content of a cell that was allocated and never written.
Undef == 0 - 1

Blocks == 1..MaxBlocks

UnusedBlock == [st |-> "unused", cap |-> 0, mem |-> <<>>, rel |-> 0]

\* Blocks handed out so far (live or released).
AllocCount(h) == Cardinality({b \in Blocks : h[b].st # "unused"})

CanAlloc(h) == AllocCount(h) < MaxBlocks

\* The pointer the next allocate() returns.
NewBlock(h) == AllocCount(h) + 1

\* create(size, allocator): alloc.allocate(size); the cells are uninitialized.
create(h, size) ==
    [h EXCEPT ![NewBlock(h)] =
        [st |-> "live", cap |-> size,
         mem |-> [k \in 0..(size - 1) |-> Undef], rel |-> 0]]

\* allocator.deallocate(ptr, n): nothing for a null pointer; otherwise the block
\* is released: its cells hold nothing any more, and rel counts the releases.
deallocate(h, ptr) ==
    IF ptr = NullPtr THEN h
    ELSE [h EXCEPT ![ptr] =
            [st |-> "freed", cap |-> @.cap, mem |-> <<>>,
             rel |-> Min(@.rel + 1, 2)]]

\* std::fill / std::copy into a live block: cells [0, len) from src, cells
\* [len, num) set to value, the rest of the block as it was.
copy_fill(h, dst, src, len, num, value) ==
    IF dst = NullPtr THEN h
    ELSE [h EXCEPT ![dst].mem =
            [k \in DOMAIN @ |-> IF k < len THEN src[k]
                                ELSE IF k < num THEN value
                                ELSE @[k]]]

\* ------------------------------------------------------------ the ndarray
ArrIds == {1, 2}

ArrayShapes == [1..N -> 0..MaxDim]

\* An array object that has not been constructed yet.
NoArray ==
    [life |-> "none", data_ |-> NullPtr, num_elements_ |-> 0, capacity_ |-> 0,
     shape_ |-> Fill(N, 0), strides_ |-> Fill(N, 0)]

\* The array's storage can be read and written: it has none, or its block is
\* live.  Once the block has been released under the array every access through
\* data_ is undefined; such an array is followed only to its destructor.
StorageValid(a) ==
    IF arr[a].data_ = NullPtr THEN TRUE ELSE heap[arr[a].data_].st = "live"

\* The cells of the array's block before an operation (nothing for nullptr).
MemOf(h, ptr) == IF ptr = NullPtr THEN <<>> ELSE h[ptr].mem

\* What an operation leaves in `last`.
Snapshot(opname, a, shape, value) ==
    [op |-> opname, a |-> a, shape |-> shape, value |-> value,
     old |-> arr[a], oldmem |-> MemOf(heap, arr[a].data_),
     blocks |-> AllocCount(heap)]

\* One operation of the run: nops counts the operations the run has left.
Step == nops > 0 /\ nops' = nops - 1

\* ndarray(const std::array<size_t,N>& shape, T val)
Construct(a, shape, val) ==
    /\ Step
    /\ arr[a].life = "none"
    /\ CanAlloc(heap)
    /\ LET cs == calculate_strides(order, shape)
           p == NewBlock(heap)
       IN  /\ heap' = copy_fill(create(heap, cs.size), p, <<>>, 0, cs.size, val)
           /\ arr' = [arr EXCEPT ![a] =
                  [life |-> "live", data_ |-> p, num_elements_ |-> cs.size,
                   capacity_ |-> cs.size, shape_ |-> shape,
                   strides_ |-> cs.strides]]
    /\ last' = [op |-> "construct", a |-> a]
    /\ UNCHANGED <<order, origin>>
    /\ UNCHANGED <<layoutVars, viewVars, iterVars>>

\* ~ndarray(): get_allocator().deallocate(to_plain_pointer(data_), capacity_)
Destroy(a) ==
    /\ Step
    /\ arr[a].life = "live"
    /\ heap' = deallocate(heap, arr[a].data_)
    /\ arr' = [arr EXCEPT ![a].life = "dead"]
    /\ last' = [op |-> "destroy", a |-> a]
    /\ UNCHANGED <<order, origin>>
    /\ UNCHANGED <<layoutVars, viewVars, iterVars>>

\* T& operator()(const std::array<size_t,N>& indices), assigned through:
\* off = get_offset(strides_, indices); assert(off < size()); data_[off] = v
Write(a, indices, v) ==
    /\ Step
    /\ arr[a].life = "live"
    /\ StorageValid(a)
    /\ LET off == get_offset(origin, arr[a].strides_, indices)
       IN  /\ off < arr[a].num_elements_
           /\ heap' = [heap EXCEPT ![arr[a].data_].mem[off] = v]
    /\ last' = [op |-> "write", a |-> a, indices |-> indices, value |-> v,
                 oldmem |-> MemOf(heap, arr[a].data_)]
    /\ UNCHANGED <<order, origin, arr>>
    /\ UNCHANGED <<layoutVars, viewVars, iterVars>>

\* A resize that never releases the old block.
resize_releases_never(num, old_size) == FALSE

\* resize: the old block is released when the element count grew.
resize_releases(num, old_size) == num > old_size

\* void resize(const std::array<size_t,N>& shape, T value = T())
Resize(a, shape, value) ==
    /\ Step
    /\ arr[a].life = "live"
    /\ StorageValid(a)
    /\ LET old_data == arr[a].data_
           old_size == arr[a].num_elements_
           cs == calculate_strides(order, shape)
           num == cs.size
           grow == num > arr[a].capacity_
           data1 == IF grow THEN NewBlock(heap) ELSE old_data
           cap1 == IF grow THEN num ELSE arr[a].capacity_
           len == Min(old_size, num)
           h1 == IF grow THEN create(heap, cap1) ELSE heap
           h2 == copy_fill(h1, data1, MemOf(heap, old_data), len, num, value)
           h3 == IF resize_releases(num, old_size)
                 THEN deallocate(h2, old_data) ELSE h2
       IN  /\ grow => CanAlloc(heap)
           /\ heap' = h3
           /\ arr' = [arr EXCEPT ![a] =
                  [life |-> "live", data_ |-> data1, num_elements_ |-> num,
                   capacity_ |-> cap1, shape_ |-> shape,
                   strides_ |-> cs.strides]]
    /\ last' = Snapshot("resize", a, shape, value)
    /\ UNCHANGED <<order, origin>>
    /\ UNCHANGED <<layoutVars, viewVars, iterVars>>

\* The value the array holds at a flat position, if its block holds any.
Holds(a, k, v) ==
    /\ arr[a].data_ # NullPtr
    /\ heap[arr[a].data_].st = "live"
    /\ k \in DOMAIN heap[arr[a].data_].mem
    /\ heap[arr[a].data_].mem[k] = v

ArrayIdle ==
    /\ order = "row_major"
    /\ origin = 0
    /\ heap = [b \in Blocks |-> UnusedBlock]
    /\ arr = [a \in ArrIds |-> NoArray]
    /\ nops = 0
    /\ last = [op |-> "none"]

InitArray ==
    /\ order \in Orders
    /\ origin \in Origins
    /\ heap = [b \in Blocks |-> UnusedBlock]
    /\ arr = [a \in ArrIds |-> NoArray]
    /\ last = [op |-> "none"]

\* ------------------------------------------------------ nested literals
\* array_item<T>: a scalar (is_array_ false, val_) or a list (is_array_ true, v_).
Scalar(x) == [is_array |-> FALSE, v |-> <<>>, val |-> x]

List(items) == [is_array |-> TRUE, v |-> items, val |-> 0]

\* The non-empty sequences of at most MaxLitLen members of S.
SeqsUpTo(S) == UNION {[1..n -> S] : n \in 1..MaxLitLen}

\* The items nested at most d levels deep over the given leaves.
RECURSIVE LitItems(_, _)
LitItems(leaves, d) ==
    IF d = 0 THEN {Scalar(x) : x \in leaves}
    ELSE {Scalar(x) : x \in leaves}
         \cup {List(items) : items \in SeqsUpTo(LitItems(leaves, d - 1))}

\* The std::initializer_list<array_item<T>> arguments: lists nested up to N deep.
Literals(leaves) == {List(items) : items \in SeqsUpTo(LitItems(leaves, N - 1))}

\* dim_from_initializer_list(init, shape): writes shape_ from the first item of
\* each level and compares the later items of the level with the first; returns
\* the shape_ member as written so far and the exception thrown, if any.
RECURSIVE dim_from_initializer_list(_, _, _)
dim_from_initializer_list(shape_, init, shape) ==
    IF Len(init.v) = 0 THEN [shape_ |-> shape_, err |-> "none"]
    ELSE
      LET first == init.v[1]
          is_array == first.is_array
          size == Len(first.v)
          \* i == 0
          set == shape < Len(shape_)
          shape1 == IF set THEN shape + 1 ELSE shape
          s1 == IF set THEN [shape_ EXCEPT ![shape + 1] = Len(init.v)]
                ELSE shape_
          r1 == IF set /\ is_array
                THEN dim_from_initializer_list(s1, first, shape1)
                ELSE [shape_ |-> s1, err |-> "none"]
          \* i > 0
          others == 2..Len(init.v)
      IN  IF r1.err # "none" THEN r1
          ELSE IF is_array
               THEN IF \E i \in others :
                          ~init.v[i].is_array \/ Len(init.v[i].v) # size
                    THEN [shape_ |-> r1.shape_, err |-> "non-conforming shapes"]
                    ELSE r1
               ELSE IF others # {} /\ shape1 # Len(shape_)
                    THEN [shape_ |-> r1.shape_,
                          err |-> "incompatible with array dimensionality"]
                    ELSE r1

\* A leaf stored one cell after its offset.
store_leaf_shifted(mem, size, offset, val) ==
    IF offset + 1 < size THEN [mem EXCEPT ![offset + 1] = val] ELSE mem

\* The leaf branch of data_from_initializer_list:
\* if (offset < size()) data_[offset] = item.value();
store_leaf(mem, size, offset, val) ==
    IF offset < size THEN [mem EXCEPT ![offset] = val] ELSE mem

\* data_from_initializer_list(init, indices, index): the loop from item i on.
\* st = [mem, indices, oob]: the block's cells, the indices array (shared by
\* reference along the walk) and whether indices[index] was written out of
\* bounds.  Leaves are stored at get_offset<N,N,zero_based>(strides_, indices).
RECURSIVE data_from_initializer_list(_, _, _, _, _, _)
data_from_initializer_list(strides, size, init, st, index, i) ==
    IF i >= Len(init.v) THEN st
    ELSE
      LET item == init.v[i + 1]
          inb == index < Len(st.indices)
          ind1 == IF inb THEN [st.indices EXCEPT ![index + 1] = i]
                  ELSE st.indices
          st0 == [mem |-> st.mem, indices |-> ind1, oob |-> st.oob \/ ~inb]
          offset == get_offset(0, strides, ind1)
          st1 == IF item.is_array
                 THEN data_from_initializer_list(strides, size, item, st0,
                                                 index + 1, 0)
                 ELSE [st0 EXCEPT !.mem = store_leaf(@, size, offset, item.val)]
      IN  data_from_initializer_list(strides, size, init, st1, index, i + 1)

\* The depth of every leaf of a literal item, counted from the item.
RECURSIVE LeafDepths(_)
LeafDepths(item) ==
    IF ~item.is_array THEN {0}
    ELSE UNION {{d + 1 : d \in LeafDepths(item.v[i])} : i \in 1..Len(item.v)}

\* What an uninitialized std::array<size_t,N> may hold.
Garbage == [1..N -> 0..MaxDim]

\* The initial contents of data_from_initializer_list's `indices` that matter:
\* all of them when some leaf is reached with an index never assigned.
IndicesGarbage(lit) ==
    IF LeafDepths(lit) = {N} THEN {Fill(N, 0)} ELSE Garbage

\* ndarray(std::initializer_list<array_item<T>> list); shape_ is not
\* initialized before dim_from_initializer_list writes it (shape0).
ConstructList(a, lit, shape0, ind0) ==
    /\ Step
    /\ arr[a].life = "none"
    /\ LET r == dim_from_initializer_list(shape0, lit, 0)
           cs == calculate_strides(order, r.shape_)
           p == NewBlock(heap)
           h1 == create(heap, cs.size)
           d == data_from_initializer_list(cs.strides, cs.size, lit,
                    [mem |-> h1[p].mem, indices |-> ind0, oob |-> FALSE], 0, 0)
       IN  IF r.err # "none"
           THEN /\ UNCHANGED <<heap, arr>>
                /\ last' = [op |-> "construct_list", a |-> a, lit |-> lit,
                            threw |-> r.err]
           ELSE /\ CanAlloc(heap)
                /\ heap' = [h1 EXCEPT ![p].mem = d.mem]
                /\ arr' = [arr EXCEPT ![a] =
                       [life |-> "live", data_ |-> p, num_elements_ |-> cs.size,
                        capacity_ |-> cs.size, shape_ |-> r.shape_,
                        strides_ |-> cs.strides]]
                /\ last' = [op |-> "construct_list", a |-> a, lit |-> lit,
                            threw |-> "none"]
    /\ UNCHANGED <<order, origin>>
    /\ UNCHANGED <<layoutVars, viewVars, iterVars>>

\* ndarray& operator=(std::initializer_list<array_item<T>> list)
AssignList(a, lit, ind0) ==
    /\ Step
    /\ arr[a].life = "live"
    /\ StorageValid(a)
    /\ LET h0 == deallocate(heap, arr[a].data_)
           r == dim_from_initializer_list(arr[a].shape_, lit, 0)
           cs == calculate_strides(order, r.shape_)
           p == NewBlock(h0)
           h1 == create(h0, cs.size)
           d == data_from_initializer_list(cs.strides, cs.size, lit,
                    [mem |-> h1[p].mem, indices |-> ind0, oob |-> FALSE], 0, 0)
       IN  IF r.err # "none"
           THEN /\ heap' = h0
                /\ arr' = [arr EXCEPT ![a].shape_ = r.shape_]
                /\ last' = [op |-> "assign_list", a |-> a, threw |-> r.err]
           ELSE /\ CanAlloc(h0)
                /\ heap' = [h1 EXCEPT ![p].mem = d.mem]
                /\ arr' = [arr EXCEPT ![a] =
                       [life |-> "live", data_ |-> p, num_elements_ |-> cs.size,
                        capacity_ |-> cs.size, shape_ |-> r.shape_,
                        strides_ |-> cs.strides]]
                /\ last' = [op |-> "assign_list", a |-> a, threw |-> "none"]
    /\ UNCHANGED <<order, origin>>
    /\ UNCHANGED <<layoutVars, viewVars, iterVars>>

\* ndarray(): no storage, all extents and strides 0.
DefaultConstruct(a) ==
    /\ Step
    /\ arr[a].life = "none"
    /\ arr' = [arr EXCEPT ![a] = [NoArray EXCEPT !.life = "live"]]
    /\ last' = [op |-> "default_construct", a |-> a]
    /\ UNCHANGED <<order, origin, heap>>
    /\ UNCHANGED <<layoutVars, viewVars, iterVars>>

\* assign_copy(other, std::false_type): std::allocator does not propagate on
\* copy assignment.  The block is reused when the sizes are equal.
assign_copy(h, self, other) ==
    LET differ == self.num_elements_ # other.num_elements_
        h0 == IF differ THEN deallocate(h, self.data_) ELSE h
        p == IF differ THEN NewBlock(h0) ELSE self.data_
        h1 == IF differ THEN create(h0, other.num_elements_) ELSE h0
        cap == IF differ THEN other.num_elements_ ELSE self.capacity_
    IN  [heap |-> copy_fill(h1, p, MemOf(h, other.data_),
                            other.num_elements_, other.num_elements_, 0),
         self |-> [life |-> "live", data_ |-> p,
                   num_elements_ |-> other.num_elements_, capacity_ |-> cap,
                   shape_ |-> other.shape_, strides_ |-> other.strides_],
         allocates |-> differ]

\* ndarray& operator=(const ndarray& other), &other != this
AssignCopy(a, b) ==
    /\ Step
    /\ a # b
    /\ arr[a].life = "live" /\ arr[b].life = "live"
    /\ StorageValid(a) /\ StorageValid(b)
    /\ LET r == assign_copy(heap, arr[a], arr[b])
       IN  /\ r.allocates => CanAlloc(heap)
           /\ heap' = r.heap
           /\ arr' = [arr EXCEPT ![a] = r.self]
    /\ last' = [op |-> "assign_copy", a |-> a, b |-> b]
    /\ UNCHANGED <<order, origin>>
    /\ UNCHANGED <<layoutVars, viewVars, iterVars>>

\* void swap(ndarray& other): data_, num_elements_, capacity_, shape_ and
\* strides_ are exchanged; the stateless std::allocator is left in place.
swap(x, y) == [self |-> [y EXCEPT !.life = x.life],
               other |-> [x EXCEPT !.life = y.life]]

Swap(a, b) ==
    /\ Step
    /\ a # b
    /\ arr[a].life = "live" /\ arr[b].life = "live"
    /\ LET r == swap(arr[a], arr[b])
       IN  arr' = [arr EXCEPT ![a] = r.self, ![b] = r.other]
    /\ last' = [op |-> "swap", a |-> a, b |-> b]
    /\ UNCHANGED <<order, origin, heap>>
    /\ UNCHANGED <<layoutVars, viewVars, iterVars>>

\* ndarray& operator=(ndarray&& other), &other != this:
\* assign_move(other, std::true_type) is swap(other).
AssignMove(a, b) ==
    /\ Step
    /\ a # b
    /\ arr[a].life = "live" /\ arr[b].life = "live"
    /\ LET r == swap(arr[a], arr[b])
       IN  arr' = [arr EXCEPT ![a] = r.self, ![b] = r.other]
    /\ last' = [op |-> "assign_move", a |-> a, b |-> b]
    /\ UNCHANGED <<order, origin, heap>>
    /\ UNCHANGED <<layoutVars, viewVars, iterVars>>

\* ------------------------------------------------------------ views
\* slice::npos, size_t(-1): the value of a slice bound left unspecified.
Npos == 0 - 1

\* slice(start, stop, step)
Slice(start, stop, step) == [start_ |-> start, stop_ |-> stop, step_ |-> step]

\* size_t slice::start(size_t origin) const
slice_start(sl, org) == IF sl.start_ = Npos THEN org ELSE sl.start_

\* A stop that takes the slice's second component for a size.
slice_stop_as_size(sl, org, n) ==
    IF sl.stop_ = Npos THEN org + n ELSE slice_start(sl, org) + sl.stop_

\* size_t slice::stop(size_t origin, size_t n) const
slice_stop(sl, org, n) == IF sl.stop_ = Npos THEN org + n ELSE sl.stop_

\* size_t slice::length(size_t origin, size_t n) const
slice_length(sl, org, n) ==
    LET y == slice_stop(sl, org, n)
        x == slice_start(sl, org)
        w == y - x
    IN  (w \div sl.step_) + (IF w % sl.step_ # 0 THEN 1 ELSE 0)

\* Offsets whose slice starts are not multiplied by the strides.
calculate_offsets_unscaled(ord, org, rel, strides, slices) ==
    LET M == Len(strides)
        at == IF ord = "row_major" THEN M ELSE 1
    IN  [i \in 1..M |->
            (IF i = at THEN rel ELSE 0)
            + rebase_to_zero(org, slice_start(slices[i], org))]

\* Offsets that leave out rel, the displacement of the fixed trailing indices.
calculate_offsets_rel_dropped(ord, org, rel, strides, slices) ==
    [i \in 1..Len(strides) |->
        rebase_to_zero(org, slice_start(slices[i], org)) * strides[i]]

\* Order::calculate_offsets<M,Base>(rel, strides, slices, offsets): rel goes to
\* the last axis (row_major) or to the first (column_major).
calculate_offsets(ord, org, rel, strides, slices) ==
    LET M == Len(strides)
        at == IF ord = "row_major" THEN M ELSE 1
    IN  [i \in 1..M |->
            (IF i = at THEN rel ELSE 0)
            + rebase_to_zero(org, slice_start(slices[i], org)) * strides[i]]

\* A view object that has not been constructed yet.
NoView ==
    [life |-> "none", kind |-> "none", base_data_ |-> NullPtr, base_size_ |-> 0,
     shape_ |-> <<>>, strides_ |-> <<>>, offsets_ |-> <<>>,
     slices |-> <<>>, last_dim |-> <<>>]

\* An iterator object that has not been constructed yet.
NoIter == [life |-> "none"]

ViewIdle == view = NoView /\ view2 = NoView /\ iter = NoIter

\* ndarray_view(ndarray<T,M,...>& a):
\* super_type(a.data(), a.size(), a.shape(), a.strides()), offsets_.fill(0)
ViewOfArray(a) ==
    /\ Step
    /\ arr[a].life = "live"
    /\ StorageValid(a)
    /\ view.life = "none"
    /\ view' = [life |-> "live", kind |-> "alias", base_data_ |-> arr[a].data_,
                base_size_ |-> arr[a].num_elements_, shape_ |-> arr[a].shape_,
                strides_ |-> arr[a].strides_, offsets_ |-> Fill(N, 0),
                slices |-> <<>>, last_dim |-> <<>>]
    /\ last' = [op |-> "view_of_array", a |-> a]
    /\ UNCHANGED <<order, origin, heap, arr, view2>>
    /\ UNCHANGED <<layoutVars, iterVars>>

\* ndarray_view(ndarray<T,N,...>& a, slices, last_dim), M = Len(slices):
\* ndarray_view_base(data, size, shape, strides, slices, last_dim)
ViewOfSlices(a, slices, last_dim) ==
    /\ Step
    /\ arr[a].life = "live"
    /\ StorageValid(a)
    /\ view.life = "none"
    /\ LET M == Len(slices)
           indices == [i \in 1..N |->
                          IF i <= M THEN origin ELSE last_dim[i - M]]
           rel == get_offset(origin, arr[a].strides_, indices)
           shape1 == [i \in 1..M |->
                         slice_length(slices[i], origin, arr[a].shape_[i])]
           strides0 == [i \in 1..M |-> arr[a].strides_[i]]
           offsets1 == calculate_offsets(order, origin, rel, strides0, slices)
           strides1 == [i \in 1..M |-> strides0[i] * slices[i].step_]
       IN  view' = [life |-> "live", kind |-> "slices",
                    base_data_ |-> arr[a].data_,
                    base_size_ |-> arr[a].num_elements_, shape_ |-> shape1,
                    strides_ |-> strides1, offsets_ |-> offsets1,
                    slices |-> slices, last_dim |-> last_dim]
    /\ last' = [op |-> "view_of_slices", a |-> a]
    /\ UNCHANGED <<order, origin, heap, arr, view2>>
    /\ UNCHANGED <<layoutVars, iterVars>>

\* T& ndarray_view::operator()(const std::array<size_t,M>& indices), assigned
\* through: off = get_offset(strides_, offsets_, indices);
\* assert(off < base_size()); base_data_[off] = v
ViewWrite(indices, v) ==
    /\ Step
    /\ view.life = "live"
    /\ view.base_data_ # NullPtr
    /\ heap[view.base_data_].st = "live"
    /\ LET off == get_offset_offs(origin, view.strides_, view.offsets_, indices)
       IN  /\ off < view.base_size_
           /\ heap' = [heap EXCEPT ![view.base_data_].mem[off] = v]
    /\ last' = [op |-> "view_write", a |-> 1, indices |-> indices, value |-> v,
                oldmem |-> MemOf(heap, view.base_data_)]
    /\ UNCHANGED <<order, origin, arr, view, view2>>
    /\ UNCHANGED <<layoutVars, iterVars>>

\* The value operator() of the array returns at indices, as a predicate.
ArrayReads(a, indices, v) ==
    LET off == get_offset(origin, arr[a].strides_, indices)
    IN  off < arr[a].num_elements_ /\ Holds(a, off, v)

\* The value operator() of the view returns at indices, as a predicate.
ViewReads(indices, v) ==
    LET off == get_offset_offs(origin, view.strides_, view.offsets_, indices)
    IN  /\ off < view.base_size_
        /\ view.base_data_ # NullPtr
        /\ heap[view.base_data_].st = "live"
        /\ off \in DOMAIN heap[view.base_data_].mem
        /\ heap[view.base_data_].mem[off] = v

\* ------------------------------------- SpecResize: one array, resized at will
InitResize ==
    InitArray /\ origin = 0 /\ nops = MaxOps /\ LayoutIdle /\ ViewIdle

NextResize ==
    \/ \E s \in ArrayShapes, v \in Values : Construct(1, s, v)
    \/ \E idx \in IndexTuples(origin, arr[1].shape_), v \in Values :
           Write(1, idx, v)
    \/ \E s \in ArrayShapes, v \in Values : Resize(1, s, v)
    \/ Destroy(1)

SpecResize == InitResize /\ [][NextResize]_vars

\* -------------------------------------------------------------------- C1
\* C1: over any sequence of resize calls on an owning array followed by its
\* destruction, every block the array allocated is released exactly once, a
\* block is never released while it is the array's current storage, and
\* resize releases a block only when it has allocated a new one.
C1_ReleasedExactlyOnce ==
    /\ \A b \in Blocks : heap[b].rel <= 1
    /\ arr[1].life = "dead" =>
          \A b \in Blocks : heap[b].st # "unused" => heap[b].rel = 1
    /\ (arr[1].life = "live" /\ arr[1].data_ # NullPtr) =>
          heap[arr[1].data_].st = "live"
    /\ (last.op = "resize" /\ last.old.data_ # NullPtr
            /\ heap[last.old.data_].st = "freed") =>
          AllocCount(heap) > last.blocks

\* -------------------------------------------------------------------- C2
\* C2: resize(newShape, v) on an array of old size s and capacity c allocates
\* a block if and only if product(newShape) > c; afterwards, with
\* m = min(s, product(newShape)), flat position k holds its old value for
\* k < m and holds v for m <= k < product(newShape).
C2_ResizePrefixAndFill ==
    last.op = "resize" =>
        LET p == Product(last.shape)
            m == Min(last.old.num_elements_, p)
        IN  /\ (AllocCount(heap) > last.blocks) <=> (p > last.old.capacity_)
            /\ \A k \in 0..(m - 1) : Holds(1, k, last.oldmem[k])
            /\ \A k \in m..(p - 1) : Holds(1, k, last.value)

\* -------------------------------------------------------------------- C3
\* C3: after resize(newShape, v) every multi-index in range in both the old
\* and the new shape addresses the value it addressed before the resize.
C3_ResizeKeepsIndices ==
    last.op = "resize" =>
        \A idx \in IndexTuples(origin, last.old.shape_) \cap
                   IndexTuples(origin, last.shape) :
            Holds(1, get_offset(origin, arr[1].strides_, idx),
                  last.oldmem[get_offset(origin, last.old.strides_, idx)])

\* ----------------------------- Spec: two owning arrays through their lifecycle
\* The literals assigned in this specification carry one leaf value: what
\* matters here is their nesting.
StructLiterals == Literals({DefaultValue})

\* The arrays of this specification are filled with T() alone and are not
\* indexed: their contents and the origin policy play no part in it.
Init == InitArray /\ origin = 0 /\ nops = MaxLifeOps /\ LayoutIdle /\ ViewIdle

Next ==
    \/ \E a \in ArrIds, s \in ArrayShapes : Construct(a, s, DefaultValue)
    \/ \E a \in ArrIds : DefaultConstruct(a)
    \/ \E a \in ArrIds, s \in ArrayShapes : Resize(a, s, DefaultValue)
    \/ \E a \in ArrIds, lit \in StructLiterals :
          \E ind0 \in IndicesGarbage(lit) : AssignList(a, lit, ind0)
    \/ \E a, b \in ArrIds : AssignCopy(a, b)
    \/ \E a, b \in ArrIds : AssignMove(a, b)
    \/ \E a, b \in ArrIds : Swap(a, b)
    \/ \E a \in ArrIds : Destroy(a)

Spec == Init /\ [][Next]_vars

\* -------------------------------------------------------------------- C4
\* C4: in every state reached by construction, resize, copy assignment, move
\* assignment, nested-literal assignment and swap, each owning array has
\* capacity >= size and size = product(shape).
C4_CapacityAndSize ==
    \A a \in ArrIds :
        arr[a].life = "live" =>
            /\ arr[a].capacity_ >= arr[a].num_elements_
            /\ arr[a].num_elements_ = Product(arr[a].shape_)

\* ------------------------------------------------ SpecLayout: pure functions
LayoutShapes == UNION {[1..n -> 0..MaxExtent] : n \in 1..MaxRank}

InitLayout ==
    /\ ArrayIdle
    /\ ViewIdle
    /\ lshape \in LayoutShapes
    /\ lorder \in Orders
    /\ lorigin \in Origins
    /\ lstrides = Fill(Len(lshape), 0)
    /\ lsize = 0
    /\ lpc = "init"

\* Order::calculate_strides(shape_, strides_, num_elements_)
CalcStrides ==
    /\ lpc = "init"
    /\ LET r == calculate_strides(lorder, lshape)
       IN  /\ lstrides' = r.strides
           /\ lsize' = r.size
    /\ lpc' = "done"
    /\ UNCHANGED <<lshape, lorder, lorigin>>
    /\ UNCHANGED <<arrayVars, viewVars, iterVars>>

NextLayout == CalcStrides

SpecLayout == InitLayout /\ [][NextLayout]_vars

\* -------------------------------------------------------------------- C6
\* C6: for every shape whose extents are all >= 1, under both layouts, the
\* strides calculate_strides computes make (index tuple |-> get_offset) a
\* bijection from the in-range index tuples onto 0..size-1, and size is the
\* product of the extents.
C6_OffsetsBijective ==
    (lpc = "done" /\ \A k \in 1..Len(lshape) : lshape[k] >= 1) =>
        LET tuples == IndexTuples(lorigin, lshape)
            off(idx) == get_offset(lorigin, lstrides, idx)
        IN  /\ lsize = Product(lshape)
            /\ \A idx \in tuples : off(idx) \in 0..(lsize - 1)
            /\ \A i1, i2 \in tuples : off(i1) = off(i2) => i1 = i2
            /\ \A o \in 0..(lsize - 1) : \E idx \in tuples : off(idx) = o

C6_Witness ==
    /\ lpc = "done"
    /\ lshape = <<2, 3, 2>>
    /\ lorder = "column_major"
    /\ lorigin = 1

\* -------------------------------------------------------------------- C7
\* C7: calculate_strides returns size = product(shape); the fastest axis
\* (the last for row-major, the first for column-major) has stride 1 and
\* every other stride is the neighbouring faster axis's stride times that
\* axis's extent.
C7_StridesRecurrence ==
    lpc = "done" =>
        LET n == Len(lshape)
        IN  /\ lsize = Product(lshape)
            /\ lorder = "row_major" =>
                  /\ lstrides[n] = 1
                  /\ \A i \in 1..(n - 1) :
                        lstrides[i] = lstrides[i + 1] * lshape[i + 1]
            /\ lorder = "column_major" =>
                  /\ lstrides[1] = 1
                  /\ \A i \in 2..n :
                        lstrides[i] = lstrides[i - 1] * lshape[i - 1]

C7_Witness ==
    /\ lpc = "done"
    /\ lorder = "row_major"
    /\ lshape = <<2, 3, 3>>
    /\ lstrides = <<9, 3, 1>>
    /\ lsize = 18
\* --------------------------- SpecLiteral: an array built from a nested literal
InitLiteral == InitArray /\ nops = MaxLitOps /\ LayoutIdle /\ ViewIdle

NextLiteral ==
    \/ \E lit \in Literals(Values), shape0 \in Garbage :
           \E ind0 \in IndicesGarbage(lit) : ConstructList(1, lit, shape0, ind0)
    \/ Destroy(1)

SpecLiteral == InitLiteral /\ [][NextLiteral]_vars

\* The sizes of a literal along its first items, one per nesting level.
RECURSIVE LitShape(_)
LitShape(item) ==
    IF ~item.is_array \/ Len(item.v) = 0 THEN <<>>
    ELSE <<Len(item.v)>> \o LitShape(item.v[1])

\* A literal nested exactly d levels deep whose lists of one level all have
\* the same size.
RECURSIVE Rectangular(_, _)
Rectangular(item, d) ==
    IF d = 0 THEN ~item.is_array
    ELSE /\ item.is_array
         /\ Len(item.v) >= 1
         /\ \A i \in 1..Len(item.v) :
                /\ Rectangular(item.v[i], d - 1)
                /\ LitShape(item.v[i]) = LitShape(item.v[1])

\* The leaf of a literal at a zero-based multi-index.
RECURSIVE Leaf(_, _)
Leaf(item, idx) ==
    IF idx = <<>> THEN item.val ELSE Leaf(item.v[Head(idx) + 1], Tail(idx))

\* The leaves of a literal in depth-first order.
RECURSIVE Leaves(_)
Leaves(item) ==
    IF ~item.is_array THEN <<item.val>>
    ELSE IF Len(item.v) = 0 THEN <<>>
    ELSE Leaves(item.v[1]) \o Leaves([item EXCEPT !.v = Tail(@)])

\* -------------------------------------------------------------------- C8
\* C8: constructing an array from a rectangular nested literal of depth N
\* succeeds, makes shape[d] the literal's size at depth d, and the array then
\* reads at every multi-index the literal's leaf at that multi-index, for both
\* layouts: row-major storage is the depth-first leaf order, and column-major
\* stores leaf (i,j) of a 2-level literal at flat offset i + j*shape[0].
C8_LiteralRoundTrip ==
    (last.op = "construct_list" /\ Rectangular(last.lit, N)) =>
        /\ last.threw = "none"
        /\ arr[1].life = "live"
        /\ arr[1].shape_ = LitShape(last.lit)
        /\ \A idx \in IndexTuples(origin, arr[1].shape_) :
               ArrayReads(1, idx,
                   Leaf(last.lit, [k \in 1..N |-> idx[k] - origin]))
        /\ order = "row_major" =>
               \A k \in 0..(arr[1].num_elements_ - 1) :
                   Holds(1, k, Leaves(last.lit)[k + 1])
        /\ (order = "column_major" /\ N = 2) =>
               \A i \in 0..(arr[1].shape_[1] - 1),
                  j \in 0..(arr[1].shape_[2] - 1) :
                   Holds(1, i + j * arr[1].shape_[1], Leaf(last.lit, <<i, j>>))

C8_Witness ==
    /\ last.op = "construct_list"
    /\ last.lit = List(<<List(<<Scalar(0), Scalar(1)>>),
                         List(<<Scalar(1), Scalar(1)>>)>>)
    /\ order = "column_major"
    /\ origin = 1
    /\ arr[1].life = "live"
    /\ arr[1].shape_ = <<2, 2>>
    /\ Holds(1, 1, 1) /\ Holds(1, 2, 1) /\ Holds(1, 0, 0)

\* ------------------------------------------ SpecView: an array and its view
InitView == InitArray /\ nops = MaxViewOps /\ LayoutIdle /\ ViewIdle

\* The slices a caller may pass for an axis of extent n: bounds inside the
\* axis or unspecified, start <= stop (slice::length asserts it), step >= 1.
AllSlices ==
    [start_ : {Npos} \cup 0..(1 + MaxDim), stop_ : {Npos} \cup 0..(1 + MaxDim),
     step_ : 1..MaxStep]

ValidSlice(sl, org, n) ==
    /\ slice_start(sl, org) \in org..(org + n)
    /\ slice_stop(sl, org, n) \in org..(org + n)
    /\ slice_start(sl, org) <= slice_stop(sl, org, n)

RECURSIVE SliceTuples(_, _, _)
SliceTuples(org, shape, M) ==
    IF M = 0 THEN {<<>>}
    ELSE {Append(t, sl) : t \in SliceTuples(org, shape, M - 1),
                          sl \in {x \in AllSlices : ValidSlice(x, org, shape[M])}}

\* The trailing indices a caller may fix: inside their axes.
LastDims(org, shape, M) ==
    {l \in [1..(N - M) -> org..(org + MaxDim)] :
        \A i \in 1..(N - M) : l[i] < org + shape[M + i]}

NextView ==
    \/ \E s \in ArrayShapes : Construct(1, s, DefaultValue)
    \/ \E idx \in IndexTuples(origin, arr[1].shape_), v \in Values :
           Write(1, idx, v)
    \/ ViewOfArray(1)
    \/ \E M \in 1..N :
           \E sls \in SliceTuples(origin, arr[1].shape_, M),
              l \in LastDims(origin, arr[1].shape_, M) :
               ViewOfSlices(1, sls, l)
    \/ \E idx \in IndexTuples(origin, view.shape_), v \in Values :
           ViewWrite(idx, v)

SpecView == InitView /\ [][NextView]_vars

\* -------------------------------------------------------------------- C5
\* C5: with a mutable view that aliases the whole array (same shape and
\* strides, zero offsets), a write through the view or through the array at
\* index i is read back at index i by both the array and the view, and every
\* other index of both keeps the value it had.
C5_ViewAliasesArray ==
    (view.life = "live" /\ view.kind = "alias"
        /\ last.op \in {"write", "view_write"}) =>
        /\ ArrayReads(1, last.indices, last.value)
        /\ ViewReads(last.indices, last.value)
        /\ \A idx \in IndexTuples(origin, arr[1].shape_) \ {last.indices} :
               /\ ArrayReads(1, idx,
                      last.oldmem[get_offset(origin, arr[1].strides_, idx)])
               /\ ViewReads(idx,
                      last.oldmem[get_offset_offs(origin, view.strides_,
                                                  view.offsets_, idx)])

C5_Witness ==
    /\ view.life = "live"
    /\ view.kind = "alias"
    /\ last.op = "view_write"
    /\ last.value = 1
    /\ last.indices = <<origin + 1, origin>>
    /\ order = "column_major"
    /\ arr[1].shape_ = <<2, 2>>
    /\ Holds(1, 1, 1)
    /\ Holds(1, 2, 0)

\* Ceiling of a / b for a >= 0, b >= 1.
CeilDiv(a, b) == (a + b - 1) \div b

\* -------------------------------------------------------------------- C9
\* C9 (as stated): a slice (start, size, step) on an axis of extent n yields a
\* view axis of length ceil((stop - start)/step) where stop = start + size, or
\* origin + n when unspecified, and start is the origin when unspecified.
C9_LengthFromSize ==
    view.kind = "slices" =>
        \A i \in 1..Len(view.slices) :
            LET sl == view.slices[i]
                start == IF sl.start_ = Npos THEN origin ELSE sl.start_
                stop == IF sl.stop_ = Npos THEN origin + arr[1].shape_[i]
                        ELSE start + sl.stop_
            IN  view.shape_[i] = CeilDiv(stop - start, sl.step_)

\* C9 (amended): the slice's second component is the stop index itself: the
\* view axis has length ceil((stop - start)/step) with stop the second
\* component, or origin + n when unspecified, and start the first component,
\* or the origin when unspecified.
C9_LengthFromStop ==
    view.kind = "slices" =>
        \A i \in 1..Len(view.slices) :
            LET sl == view.slices[i]
                start == IF sl.start_ = Npos THEN origin ELSE sl.start_
                stop == IF sl.stop_ = Npos THEN origin + arr[1].shape_[i]
                        ELSE sl.stop_
            IN  view.shape_[i] = CeilDiv(stop - start, sl.step_)

C9_Witness ==
    /\ view.kind = "slices"
    /\ origin = 0
    /\ arr[1].shape_ = <<2, 2>>
    /\ view.slices = <<Slice(1, 2, 1), Slice(1, Npos, 2)>>
    /\ view.shape_ = <<1, 1>>

\* The view's zero-based positions.
ViewPositions ==
    {j \in [1..Len(view.shape_) -> 0..MaxDim] :
        \A i \in 1..Len(view.shape_) : j[i] < view.shape_[i]}

\* The array index a view of slices and trailing indices stands for, given
\* the count j made along each sliced axis.
SlicedIndex(j) ==
    [i \in 1..N |->
        IF i <= Len(view.slices)
        THEN slice_start(view.slices[i], origin) + j[i] * view.slices[i].step_
        ELSE view.last_dim[i - Len(view.slices)]]

\* The view at vidx and the array at aidx are one cell, and read one value.
SameElement(vidx, aidx) ==
    /\ view.base_data_ = arr[1].data_
    /\ get_offset_offs(origin, view.strides_, view.offsets_, vidx)
           = get_offset(origin, arr[1].strides_, aidx)
    /\ \E v \in Values : ViewReads(vidx, v) /\ ArrayReads(1, aidx, v)

update_offsets_dropped(ord, rel, offsets) == offsets

update_offsets(ord, rel, offsets) ==
    LET at == IF ord = "row_major" THEN Len(offsets) ELSE 1
    IN  [offsets EXCEPT ![at] = @ + rel]

\* The entries of a shape, strides or offsets array from axis K on.
Trailing(s, K) == [i \in 1..(Len(s) - K) |-> s[K + i]]

\* ndarray_view(ndarray<T,N,...>& a, first_dim), K = Len(first_dim):
\* ndarray_view_base(data, size, shape, strides, first_dim)
ViewOfFirstDim(a, first_dim) ==
    /\ Step
    /\ arr[a].life = "live"
    /\ StorageValid(a)
    /\ view.life = "none"
    /\ LET K == Len(first_dim)
           rel == get_offset(origin, arr[a].strides_, first_dim)
       IN  view' = [life |-> "live", kind |-> "first_dim",
                    base_data_ |-> arr[a].data_,
                    base_size_ |-> arr[a].num_elements_,
                    shape_ |-> Trailing(arr[a].shape_, K),
                    strides_ |-> Trailing(arr[a].strides_, K),
                    offsets_ |-> update_offsets(order, rel, Fill(N - K, 0)),
                    first_dim |-> first_dim]
    /\ last' = [op |-> "view_of_first_dim", a |-> a]
    /\ UNCHANGED <<order, origin, heap, arr, view2>>
    /\ UNCHANGED <<layoutVars, iterVars>>

\* ndarray_view(ndarray_view<T,N,...>& a, first_dim):
\* ndarray_view_base(data, size, shape, strides, offsets, first_dim)
SubViewOfFirstDim(first_dim) ==
    /\ Step
    /\ view.life = "live"
    /\ view2.life = "none"
    /\ LET K == Len(first_dim)
           rel == get_offset_offs(origin, view.strides_, view.offsets_,
                                  first_dim)
       IN  view2' = [life |-> "live", kind |-> "first_dim",
                     base_data_ |-> view.base_data_,
                     base_size_ |-> view.base_size_,
                     shape_ |-> Trailing(view.shape_, K),
                     strides_ |-> Trailing(view.strides_, K),
                     offsets_ |-> update_offsets(order, rel,
                                      Trailing(view.offsets_, K)),
                     first_dim |-> first_dim]
    /\ last' = [op |-> "subview_of_first_dim", a |-> 1]
    /\ UNCHANGED <<order, origin, heap, arr, view>>
    /\ UNCHANGED <<layoutVars, iterVars>>

\* ndarray_view(ndarray_view<T,N,...>& a, slices, last_dim), and with no
\* last_dim ndarray_view(ndarray_view<T,M,...>& a, slices):
\* ndarray_view_base(data, size, shape, strides, offsets, slices, last_dim)
SubViewOfSlices(slices, last_dim) ==
    /\ Step
    /\ view.life = "live"
    /\ view2.life = "none"
    /\ LET M == Len(slices)
           indices == [i \in 1..Len(view.shape_) |->
                          IF i <= M THEN origin ELSE last_dim[i - M]]
           rel == get_offset_offs(origin, view.strides_, view.offsets_,
                                  indices)
           shape1 == [i \in 1..M |->
                         slice_length(slices[i], origin, view.shape_[i])]
           strides0 == [i \in 1..M |-> view.strides_[i]]
           offsets1 == calculate_offsets(order, origin, rel, strides0, slices)
           strides1 == [i \in 1..M |-> strides0[i] * slices[i].step_]
       IN  view2' = [life |-> "live", kind |-> "slices",
                     base_data_ |-> view.base_data_,
                     base_size_ |-> view.base_size_, shape_ |-> shape1,
                     strides_ |-> strides1, offsets_ |-> offsets1,
                     slices |-> slices, last_dim |-> last_dim]
    /\ last' = [op |-> "subview_of_slices", a |-> 1]
    /\ UNCHANGED <<order, origin, heap, arr, view>>
    /\ UNCHANGED <<layoutVars, iterVars>>

\* ndarray_view(ndarray_view<T,N,...>& a, first_dim, slices):
\* ndarray_view_base(data, size, shape, strides, offsets, first_dim, slices)
SubViewOfFirstDimSlices(first_dim, slices) ==
    /\ Step
    /\ view.life = "live"
    /\ view2.life = "none"
    /\ LET K == Len(first_dim)
           M == Len(slices)
           rel == get_offset_offs(origin, view.strides_, view.offsets_,
                                  first_dim)
           shape1 == [i \in 1..M |->
                         slice_length(slices[i], origin, view.shape_[K + i])]
           strides0 == [i \in 1..M |-> view.strides_[K + i]]
           offsets1 == calculate_offsets(order, origin, rel, strides0, slices)
           strides1 == [i \in 1..M |-> strides0[i] * slices[i].step_]
       IN  view2' = [life |-> "live", kind |-> "first_dim_slices",
                     base_data_ |-> view.base_data_,
                     base_size_ |-> view.base_size_, shape_ |-> shape1,
                     strides_ |-> strides1, offsets_ |-> offsets1,
                     first_dim |-> first_dim, slices |-> slices]
    /\ last' = [op |-> "subview_of_first_dim_slices", a |-> 1]
    /\ UNCHANGED <<order, origin, heap, arr, view>>
    /\ UNCHANGED <<layoutVars, iterVars>>

\* The flat offset operator() of a view computes for indices.
ViewOffset(vw, indices) ==
    get_offset_offs(origin, vw.strides_, vw.offsets_, indices)

\* operator() of the view vw at indices passes its assertion and returns val.
ReadsThrough(vw, indices, val) ==
    LET off == ViewOffset(vw, indices)
    IN  /\ off < vw.base_size_
        /\ vw.base_data_ # NullPtr
        /\ heap[vw.base_data_].st = "live"
        /\ off \in DOMAIN heap[vw.base_data_].mem
        /\ heap[vw.base_data_].mem[off] = val

\* -------------------------- SpecSubView: an array, a view and a view of it
\* The slices with both bounds given.
ExplicitSlices == {x \in AllSlices : x.start_ # Npos /\ x.stop_ # Npos}

\* One slice inside each axis of shape.
RECURSIVE ExplicitSliceTuples(_, _)
ExplicitSliceTuples(org, shape) ==
    IF shape = <<>> THEN {<<>>}
    ELSE {<<sl>> \o t :
            sl \in {x \in ExplicitSlices : ValidSlice(x, org, Head(shape))},
            t \in ExplicitSliceTuples(org, Tail(shape))}

\* In-range indices for the first K axes of shape.
FirstDims(org, shape, K) ==
    {f \in [1..K -> org..(org + MaxDim)] :
        \A i \in 1..K : f[i] < org + shape[i]}

\* In-range indices for the axes of shape after the first M.
TrailingDims(org, shape, M) == FirstDims(org, Trailing(shape, M), Len(shape) - M)

InitSubView == InitArray /\ nops = MaxViewOps /\ LayoutIdle /\ ViewIdle

NextSubView ==
    \/ \E s \in ArrayShapes : Construct(1, s, DefaultValue)
    \/ \E M \in 1..N :
           \E sls \in ExplicitSliceTuples(origin, SubSeq(arr[1].shape_, 1, M)),
              l \in LastDims(origin, arr[1].shape_, M) :
               ViewOfSlices(1, sls, l)
    \/ \E K \in 1..(N - 1) :
           \E f \in FirstDims(origin, arr[1].shape_, K) : ViewOfFirstDim(1, f)
    \/ \E K \in 1..(Len(view.shape_) - 1) :
           \E f \in FirstDims(origin, view.shape_, K) : SubViewOfFirstDim(f)
    \/ \E M \in 1..Len(view.shape_) :
           \E sls \in ExplicitSliceTuples(origin, SubSeq(view.shape_, 1, M)),
              l \in TrailingDims(origin, view.shape_, M) :
               SubViewOfSlices(sls, l)
    \/ \E K \in 1..(Len(view.shape_) - 1) :
           \E f \in FirstDims(origin, view.shape_, K),
              sls \in ExplicitSliceTuples(origin, Trailing(view.shape_, K)) :
               SubViewOfFirstDimSlices(f, sls)

SpecSubView == InitSubView /\ [][NextSubView]_vars

\* The zero-based positions of a shape.
Positions(shape) ==
    {j \in [1..Len(shape) -> 0..MaxDim] :
        \A i \in 1..Len(shape) : j[i] < shape[i]}

\* The view vw at vidx and the array at aidx are one cell and read one value.
ViewIsArrayElement(vw, vidx, aidx) ==
    /\ vw.base_data_ = arr[1].data_
    /\ ViewOffset(vw, vidx) = get_offset(origin, arr[1].strides_, aidx)
    /\ \E v \in Values : ReadsThrough(vw, vidx, v) /\ ArrayReads(1, aidx, v)

\* The view vw at vidx and its parent view pv at pidx are one cell and read
\* one value.
ViewIsViewElement(vw, vidx, pv, pidx) ==
    /\ vw.base_data_ = pv.base_data_
    /\ ViewOffset(vw, vidx) = ViewOffset(pv, pidx)
    /\ \E v \in Values : ReadsThrough(vw, vidx, v) /\ ReadsThrough(pv, pidx, v)

\* -------------------------------------------------------------------- C11
\* C11: a view built from a parent of rank N (the array, or a view with any
\* offsets) by fixing K indices f for axes 0..K-1 has rank N-K, has the
\* parent's shape and strides of axes K..N-1, and reads at every in-range
\* index j what the parent reads at (f_0..f_{K-1}, j).
C11_FirstDimView ==
    /\ view.kind = "first_dim" =>
           LET K == Len(view.first_dim)
           IN  /\ Len(view.shape_) = N - K
               /\ view.shape_ = Trailing(arr[1].shape_, K)
               /\ view.strides_ = Trailing(arr[1].strides_, K)
               /\ \A j \in IndexTuples(origin, view.shape_) :
                      ViewIsArrayElement(view, j, view.first_dim \o j)
    /\ view2.kind = "first_dim" =>
           LET K == Len(view2.first_dim)
           IN  /\ Len(view2.shape_) = Len(view.shape_) - K
               /\ view2.shape_ = Trailing(view.shape_, K)
               /\ view2.strides_ = Trailing(view.strides_, K)
               /\ \A j \in IndexTuples(origin, view2.shape_) :
                      ViewIsViewElement(view2, j, view, view2.first_dim \o j)

C11_Witness ==
    /\ view.kind = "slices"
    /\ view.slices = <<Slice(origin + 1, origin + 2, 1),
                       Slice(origin + 1, origin + 2, 1)>>
    /\ view2.kind = "first_dim"
    /\ view2.shape_ = <<1>>
    /\ Sum(view2.offsets_) = 3
    /\ origin = 1
    /\ order = "column_major"

\* The index of the parent a slice view's position j stands for, per axis.
SliceTarget(slices, j) ==
    [i \in 1..Len(slices) |->
        slice_start(slices[i], origin) + j[i] * slices[i].step_]

\* Sum over the axes of rebase(start) * stride.
StartDisplacement(slices, strides) ==
    Sum([i \in 1..Len(slices) |->
            rebase_to_zero(origin, slice_start(slices[i], origin)) * strides[i]])

\* -------------------------------------------------------------------- C12
\* C12 (as stated): for a view v1 built from the array by slices (s1, t1) and
\* a view v2 built from v1 by slices (s2, t2), every in-range index i of v2
\* satisfies v2(i) == v1(s2 + i*t2) == array(s1 + (s2 + i*t2)*t1) on each
\* axis; v2's strides are v1's strides times t2 and the sum of v2's offsets is
\* the sum of v1's offsets plus s2 times v1's strides.
C12_ComposeByIndex ==
    (view.kind = "slices" /\ view2.kind = "slices"
        /\ Len(view2.slices) = Len(view.shape_)) =>
        /\ \A i \in IndexTuples(origin, view2.shape_) :
               LET k == SliceTarget(view2.slices, i)
               IN  /\ ViewIsViewElement(view2, i, view, k)
                   /\ ViewIsArrayElement(view2, i,
                          SliceTarget(view.slices, k) \o view.last_dim)
        /\ \A a \in 1..Len(view2.slices) :
               view2.strides_[a] = view.strides_[a] * view2.slices[a].step_
        /\ Sum(view2.offsets_) = Sum(view.offsets_)
               + Sum([a \in 1..Len(view2.slices) |->
                         view2.slices[a].start_ * view.strides_[a]])

\* C12 (amended): the same with positions counted from zero and starts
\* rebased to the origin: for 0 <= i < length on each axis,
\* v2(origin + i) == v1(s2 + i*t2) == array(s1 + (s2 - origin + i*t2)*t1);
\* v2's strides are v1's strides times t2 and the sum of v2's offsets is the
\* sum of v1's offsets plus (s2 - origin) times v1's strides.
C12_SlicesCompose ==
    (view.kind = "slices" /\ view2.kind = "slices"
        /\ Len(view2.slices) = Len(view.shape_)) =>
        /\ \A i \in Positions(view2.shape_) :
               LET k == SliceTarget(view2.slices, i)
               IN  /\ ViewIsViewElement(view2,
                          [a \in 1..Len(i) |-> origin + i[a]], view, k)
                   /\ ViewIsArrayElement(view2,
                          [a \in 1..Len(i) |-> origin + i[a]],
                          SliceTarget(view.slices,
                              [a \in 1..Len(k) |-> k[a] - origin])
                          \o view.last_dim)
        /\ \A a \in 1..Len(view2.slices) :
               view2.strides_[a] = view.strides_[a] * view2.slices[a].step_
        /\ Sum(view2.offsets_) = Sum(view.offsets_)
               + StartDisplacement(view2.slices, view.strides_)

C12_Witness ==
    /\ view.kind = "slices"
    /\ view2.kind = "slices"
    /\ origin = 1
    /\ arr[1].shape_ = <<2, 2>>
    /\ view.slices = <<Slice(1, 3, 1), Slice(2, 3, 1)>>
    /\ view2.slices = <<Slice(2, 3, 2), Slice(1, 2, 1)>>
    /\ view2.shape_ = <<1, 1>>

\* -------------------------------------------------------------------- C13
\* C13: for a view w built from a parent view v (sliced or dimension-fixed, so
\* with non-zero offsets) by fixing K leading indices f and slicing the
\* remaining axes with (start, stop, step), every position j of w, counted
\* from zero, satisfies w(j) == v(f_0..f_{K-1}, start + j*step): the parent's
\* offsets on the retained axes are carried into w.
C13_FirstDimSlicesOfView ==
    view2.kind = "first_dim_slices" =>
        \A j \in Positions(view2.shape_) :
            ViewIsViewElement(view2, [a \in 1..Len(j) |-> origin + j[a]],
                view, view2.first_dim \o SliceTarget(view2.slices, j))

\* ------------------------------------------- materializing a view
\* const T* ndarray_view_base::data() const:
\* base_data_ + accumulate(offsets_): the cell the copy starts from.
view_data(vw) == Sum(vw.offsets_)

\* What std::copy(av.data(), av.data() + av.size(), data_) may leave in the
\* new block: the source cells in flat order; a cell read past the end of
\* the source block has no defined value.
CopiedCells(src, from, num) ==
    {m \in [0..(num - 1) -> Values \cup {Undef}] :
        \A k \in 0..(num - 1) :
            (from + k) \in DOMAIN src => m[k] = src[from + k]}

\* ndarray(const ndarray_view_base<T,N,Order,Base,TPtr>& av): shape_ and
\* strides_ are copied from the view, av.size() cells from av.data() on.
MaterializeView(a) ==
    /\ Step
    /\ arr[a].life = "none"
    /\ view.life = "live"
    /\ Len(view.shape_) = N
    /\ view.base_data_ # NullPtr
    /\ heap[view.base_data_].st = "live"
    /\ CanAlloc(heap)
    /\ LET num == Product(view.shape_)
           p == NewBlock(heap)
           h1 == create(heap, num)
       IN  /\ \E m \in CopiedCells(heap[view.base_data_].mem,
                                   view_data(view), num) :
                  heap' = [h1 EXCEPT ![p].mem = m]
           /\ arr' = [arr EXCEPT ![a] =
                  [life |-> "live", data_ |-> p, num_elements_ |-> num,
                   capacity_ |-> num, shape_ |-> view.shape_,
                   strides_ |-> view.strides_]]
    /\ last' = [op |-> "materialize", a |-> a]
    /\ UNCHANGED <<order, origin, view, view2>>
    /\ UNCHANGED <<layoutVars, iterVars>>

\* ---------------- SpecMaterialize: an array, a view of it, a copy of the view
InitMaterialize == InitArray /\ nops = MaxOps /\ LayoutIdle /\ ViewIdle

NextMaterialize ==
    \/ \E s \in ArrayShapes : Construct(1, s, DefaultValue)
    \/ \E idx \in IndexTuples(origin, arr[1].shape_), v \in Values :
           view.life = "none" /\ Write(1, idx, v)
    \/ ViewOfArray(1)
    \/ \E sls \in ExplicitSliceTuples(origin, arr[1].shape_) :
           ViewOfSlices(1, sls, <<>>)
    \/ MaterializeView(2)

SpecMaterialize == InitMaterialize /\ [][NextMaterialize]_vars

\* -------------------------------------------------------------------- C14
\* C14: materializing a view into an owning array is a deep copy: for every
\* view (strided or offset views included) the new array has the view's
\* shape, reads at every in-range multi-index what the view reads there, and
\* shares no storage with the view's owner.
C14_MaterializeIsDeepCopy ==
    (last.op = "materialize") =>
        /\ arr[2].shape_ = view.shape_
        /\ arr[2].data_ # view.base_data_
        /\ \A idx \in IndexTuples(origin, view.shape_) :
               \E v \in Values : ArrayReads(2, idx, v) /\ ViewReads(idx, v)

\* -------------------------------------------------------------------- C15
\* C15: in every reachable state every owning array's strides are the strides
\* its layout's calculate_strides computes from its current shape, after
\* every constructor (materialization from a view included).
C15_StridesDerivedFromShape ==
    \A a \in ArrIds :
        arr[a].life = "live" =>
            arr[a].strides_ = calculate_strides(order, arr[a].shape_).strides

\* ------------------------------------------------------------- iterators
\* size_t arithmetic: unsigned, wrapping at 2^SizeBits.
Modulus == 2 ^ SizeBits

Wrap(x) == (x + Modulus) % Modulus

\* get_offset<N,N,zero_based>(strides, offsets, indices) as the iterators call
\* it: no origin is subtracted, the sum is a size_t.
iterator_offset(strides, offsets, indices) ==
    Wrap(get_offset_offs(0, strides, offsets, indices))

\* The axis an iterator_one runs along: the last one in row-major order, the
\* first one in column-major order.
FastAxis(ord, shape) == IF ord = "row_major" THEN Len(shape) ELSE 1

\* Mutant of iterator_initialize: end_ is placed on the last element instead
\* of one stride past it.
iterator_initialize_short(ord, it) ==
    LET M == Len(it.shape_)
        f == FastAxis(ord, it.shape_)
        rel == iterator_offset(it.strides_, it.offsets_, it.indices_)
        run == Wrap(rel + it.strides_[f] * it.shape_[f])
        originv == [i \in 1..M |-> Wrap(it.shape_[i] - 1)]
        end_rel == iterator_offset(it.strides_, it.offsets_, originv)
    IN  IF M = 1
        THEN [it EXCEPT !.end_ = run, !.it_ = rel, !.last_ = run]
        ELSE [it EXCEPT !.end_ = end_rel, !.it_ = rel, !.last_ = run]

\* row_major_iterator::initialize / column_major_iterator::initialize, both
\* overloads (true_type for N == 1, false_type otherwise). it_, last_ and end_
\* are iterator_one objects over the same data_; only their offset_ is
\* compared (iterator_one::operator==), so each is kept as its offset_.
iterator_initialize(ord, it) ==
    LET M == Len(it.shape_)
        f == FastAxis(ord, it.shape_)
        rel == iterator_offset(it.strides_, it.offsets_, it.indices_)
        run == Wrap(rel + it.strides_[f] * it.shape_[f])
        originv == [i \in 1..M |-> Wrap(it.shape_[i] - 1)]
        end_rel == iterator_offset(it.strides_, it.offsets_, originv)
    IN  IF M = 1
        THEN [it EXCEPT !.end_ = run, !.it_ = rel, !.last_ = run]
        ELSE [it EXCEPT !.end_ = Wrap(end_rel + it.strides_[f]),
                        !.it_ = rel, !.last_ = run]

\* The carry loop of row_major_iterator::increment(false_type):
\* for (i = N-1; i-- > 0;), the body running with i = N-2 .. 0 (here axes
\* i = N-1 down to 1): the first axis that can advance does so and it_ and
\* last_ restart on the new run; an exhausted axis other than the first is
\* reset to 0.
RECURSIVE row_major_carry(_, _)
row_major_carry(it, i) ==
    IF i < 1 THEN it
    ELSE IF it.indices_[i] + 1 < it.shape_[i]
         THEN LET ind == [it.indices_ EXCEPT ![i] = @ + 1]
                  rel == iterator_offset(it.strides_, it.offsets_, ind)
                  M == Len(it.shape_)
              IN  [it EXCEPT !.indices_ = ind, !.it_ = rel,
                             !.last_ = Wrap(rel + it.strides_[M] * it.shape_[M])]
         ELSE row_major_carry(
                  IF i > 1 THEN [it EXCEPT !.indices_[i] = 0] ELSE it, i - 1)

\* The carry loop of column_major_iterator::increment(false_type):
\* for (i = 1; i < N; ++i) (here axes 2 .. N); an exhausted axis other than
\* the last is reset to 0.
RECURSIVE column_major_carry(_, _)
column_major_carry(it, i) ==
    IF i > Len(it.shape_) THEN it
    ELSE IF it.indices_[i] + 1 < it.shape_[i]
         THEN LET ind == [it.indices_ EXCEPT ![i] = @ + 1]
                  rel == iterator_offset(it.strides_, it.offsets_, ind)
              IN  [it EXCEPT !.indices_ = ind, !.it_ = rel,
                             !.last_ = Wrap(rel + it.strides_[1] * it.shape_[1])]
         ELSE column_major_carry(
                  IF i < Len(it.shape_) THEN [it EXCEPT !.indices_[i] = 0]
                                        ELSE it, i + 1)

\* operator++ of row_major_iterator / column_major_iterator. N == 1: ++it_.
\* Otherwise: ++it_ unless it_ == last_; then, if it_ == last_, the carry loop.
\* ++ of an iterator_one is offset_ += stride_.
iterator_increment(ord, it) ==
    LET f == FastAxis(ord, it.shape_)
        it1 == IF Len(it.shape_) = 1 \/ it.it_ # it.last_
               THEN [it EXCEPT !.it_ = Wrap(@ + it.strides_[f])]
               ELSE it
    IN  IF Len(it.shape_) = 1 \/ it1.it_ # it1.last_ THEN it1
        ELSE IF ord = "row_major"
             THEN row_major_carry(it1, Len(it.shape_) - 1)
             ELSE column_major_carry(it1, 2)

\* ndarray_view_base::begin(): origin.fill(0);
\* iterator(base_data_, base_size_, shape_, strides_, offsets_, origin).
view_begin(ord, vw) ==
    iterator_initialize(ord,
        [life |-> "live", data_ |-> vw.base_data_, shape_ |-> vw.shape_,
         strides_ |-> vw.strides_, offsets_ |-> vw.offsets_,
         indices_ |-> [i \in 1..Len(vw.shape_) |-> 0],
         it_ |-> 0, last_ |-> 0, end_ |-> 0])

\* ndarray_view_base::end(): acons::end(iterator(...)), the iterator built by
\* iterator(other, true): it_ = last_ = end_ = other.end_.
view_end(ord, vw) ==
    LET b == view_begin(ord, vw)
    IN  [b EXCEPT !.it_ = b.end_, !.last_ = b.end_]

\* operator== of two iterators of one view: it1.it_ == it2.it_.
iterator_equal(it1, it2) == it1.data_ = it2.data_ /\ it1.it_ = it2.it_

\* ndarray_view(T* data, const std::array<size_t,M>& shape) over the storage
\* of array a: strides from calculate_strides, offsets 0.
ViewOfData(a, shape) ==
    /\ Step
    /\ arr[a].life = "live"
    /\ StorageValid(a)
    /\ view.life = "none"
    /\ Product(shape) <= arr[a].num_elements_
    /\ view' = [life |-> "live", kind |-> "data",
                base_data_ |-> arr[a].data_,
                base_size_ |-> calculate_strides(order, shape).size,
                shape_ |-> shape,
                strides_ |-> calculate_strides(order, shape).strides,
                offsets_ |-> [i \in 1..Len(shape) |-> 0]]
    /\ last' = [op |-> "view_of_data", a |-> a]
    /\ UNCHANGED <<order, origin, heap, arr, view2>>
    /\ UNCHANGED <<layoutVars, iterVars>>

\* it = view.begin(). steps counts the increments applied since.
Begin ==
    /\ Step
    /\ view.life = "live"
    /\ iter' = [it |-> view_begin(order, view), steps |-> 0, life |-> "live"]
    /\ last' = [op |-> "begin"]
    /\ UNCHANGED <<order, origin, heap, arr, view, view2>>
    /\ UNCHANGED layoutVars

\* The body of a traversal loop: while (it != view.end()) { ...; ++it; }
Increment ==
    /\ Step
    /\ iter.life = "live"
    /\ ~iterator_equal(iter.it, view_end(order, view))
    /\ iter' = [iter EXCEPT !.it = iterator_increment(order, iter.it),
                            !.steps = @ + 1]
    /\ last' = [op |-> "increment"]
    /\ UNCHANGED <<order, origin, heap, arr, view, view2>>
    /\ UNCHANGED layoutVars

\* ---------------- SpecIterate: an array, a view of it, a traversal of it
InitIterate == InitArray /\ nops = MaxIterOps /\ LayoutIdle /\ ViewIdle

NextIterate ==
    \/ \E s \in ArrayShapes : Construct(1, s, DefaultValue)
    \/ ViewOfArray(1)
    \/ \E M \in 1..N :
           \E sls \in ExplicitSliceTuples(origin, SubSeq(arr[1].shape_, 1, M)),
              l \in LastDims(origin, arr[1].shape_, M) :
               ViewOfSlices(1, sls, l)
    \/ \E K \in 1..(N - 1) :
           \E f \in FirstDims(origin, arr[1].shape_, K) : ViewOfFirstDim(1, f)
    \/ \E s \in [1..MaxRank -> 0..MaxDim] : ViewOfData(1, s)
    \/ Begin
    \/ Increment

SpecIterate == InitIterate /\ [][NextIterate]_vars

\* The k-th zero-based multi-index of shape in the canonical order of the
\* layout: row-major counts with the last axis fastest, column-major with the
\* first axis fastest.
CanonicalIndex(ord, shape, k) ==
    [i \in 1..Len(shape) |->
        LET below == IF ord = "row_major"
                     THEN Product(SubSeq(shape, i + 1, Len(shape)))
                     ELSE Product(SubSeq(shape, 1, i - 1))
        IN  (k \div below) % shape[i]]

AllExtentsPositive(shape) == \A i \in 1..Len(shape) : shape[i] >= 1

\* -------------------------------------------------------------------- C18
\* C18: over a view all of whose extents are at least 1, the iterator that
\* begin() returns and that has been incremented k times stands on the view's
\* element at the k-th multi-index of the layout's canonical order, for every
\* k below product(shape); it equals end() after exactly product(shape)
\* increments and not earlier; every fresh begin() starts the same sequence.
C18_TraversalInCanonicalOrder ==
    (iter.life = "live" /\ AllExtentsPositive(view.shape_)) =>
        LET n == Product(view.shape_)
            k == iter.steps
        IN  /\ k <= n
            /\ iterator_equal(iter.it, view_end(order, view)) <=> (k = n)
            /\ k < n =>
                   iter.it.it_ = iterator_offset(view.strides_, view.offsets_,
                                     CanonicalIndex(order, view.shape_, k))

\* A rank-2 view of two elements that starts past the first cell of the
\* array, walked to its end.
C18_Witness ==
    /\ iter.life = "live"
    /\ view.kind = "slices"
    /\ Len(view.shape_) = 2
    /\ Product(view.shape_) = 2
    /\ Sum(view.offsets_) > 0
    /\ iter.steps = 2
    /\ iterator_equal(iter.it, view_end(order, view))

\* -------------------------------------------------------------------- C19
\* C19: over a view with at least one extent 0, begin() equals end(), so a
\* traversal loop visits no element.
C19_EmptyViewBeginIsEnd ==
    (iter.life = "live" /\ iter.steps = 0
        /\ ~AllExtentsPositive(view.shape_)) =>
        iterator_equal(iter.it, view_end(order, view))

\* -------------------------------------------------------------- operator==
\* The constructor of ViewOfSlices, building the second view object.
View2OfSlices(a, slices, last_dim) ==
    /\ Step
    /\ arr[a].life = "live"
    /\ StorageValid(a)
    /\ view2.life = "none"
    /\ LET M == Len(slices)
           indices == [i \in 1..N |->
                          IF i <= M THEN origin ELSE last_dim[i - M]]
           rel == get_offset(origin, arr[a].strides_, indices)
           shape1 == [i \in 1..M |->
                         slice_length(slices[i], origin, arr[a].shape_[i])]
           strides0 == [i \in 1..M |-> arr[a].strides_[i]]
           offsets1 == calculate_offsets(order, origin, rel, strides0, slices)
           strides1 == [i \in 1..M |-> strides0[i] * slices[i].step_]
       IN  view2' = [life |-> "live", kind |-> "slices",
                     base_data_ |-> arr[a].data_,
                     base_size_ |-> arr[a].num_elements_, shape_ |-> shape1,
                     strides_ |-> strides1, offsets_ |-> offsets1,
                     slices |-> slices, last_dim |-> last_dim]
    /\ last' = [op |-> "view2_of_slices", a |-> a]
    /\ UNCHANGED <<order, origin, heap, arr, view>>
    /\ UNCHANGED <<layoutVars, iterVars>>

\* The operands of a comparison: an owning array or a view.
ArrayOperand(a) == [kind |-> "array", id |-> a, shape_ |-> arr[a].shape_,
                    obj |-> arr[a]]

ViewOperand(id, vw) == [kind |-> "view", id |-> id, shape_ |-> vw.shape_,
                        obj |-> vw]

\* x.begin(): ndarray::begin() is the pointer data_, a view's begin() is its
\* layout iterator.
operand_begin(x) ==
    IF x.kind = "array"
    THEN [kind |-> "ptr", data_ |-> x.obj.data_, it_ |-> 0]
    ELSE [kind |-> "iterator", it |-> view_begin(order, x.obj)]

\* x.end(): ndarray::end() is data_ + num_elements_.
operand_end(x) ==
    IF x.kind = "array"
    THEN [kind |-> "ptr", data_ |-> x.obj.data_, it_ |-> x.obj.num_elements_]
    ELSE [kind |-> "iterator", it |-> view_end(order, x.obj)]

\* it1 != end1 negated.
cursor_equal(c1, c2) ==
    IF c1.kind = "ptr" THEN c1.it_ = c2.it_ ELSE iterator_equal(c1.it, c2.it)

\* ++it
cursor_increment(c) ==
    IF c.kind = "ptr" THEN [c EXCEPT !.it_ = @ + 1]
    ELSE [c EXCEPT !.it = iterator_increment(order, @)]

\* The values *it may yield: the cell it stands on; any value when it stands
\* outside the block or on a cell that was never written.
cursor_deref(c) ==
    LET data == IF c.kind = "ptr" THEN c.data_ ELSE c.it.data_
        off == IF c.kind = "ptr" THEN c.it_ ELSE c.it.it_
    IN  IF data = NullPtr THEN Values
        ELSE IF heap[data].st # "live" \/ off \notin DOMAIN heap[data].mem
                \/ heap[data].mem[off] = Undef
             THEN Values
             ELSE {heap[data].mem[off]}

\* while (it1 != end1) { if (*it1 != *it2) return false; ++it1; ++it2; }
\* return true;  -- the results the loop can return within fuel iterations.
RECURSIVE compare_loop(_, _, _, _)
compare_loop(it1, end1, it2, fuel) ==
    IF cursor_equal(it1, end1) THEN {TRUE}
    ELSE IF fuel = 0 THEN {}
    ELSE LET A == cursor_deref(it1)
             B == cursor_deref(it2)
         IN  (IF \E x \in A, y \in B : x # y THEN {FALSE} ELSE {})
             \cup (IF \E x \in A, y \in B : x = y
                   THEN compare_loop(cursor_increment(it1), end1,
                                     cursor_increment(it2), fuel - 1)
                   ELSE {})

\* bool operator==(lhs, rhs), the four overloads: the results it can return.
\* The overloads for two arrays and for two views return true for an object
\* compared with itself; all return false on a differing extent.
operator_equal(lhs, rhs) ==
    IF lhs.kind = rhs.kind /\ lhs.id = rhs.id THEN {TRUE}
    ELSE IF lhs.shape_ # rhs.shape_ THEN {FALSE}
    ELSE compare_loop(operand_begin(lhs), operand_end(lhs),
                      operand_begin(rhs), MaxCompare)

\* The element of operand x at the zero-based multi-index idx.
operand_at(x, idx) ==
    LET off == IF x.kind = "array"
               THEN get_offset(0, x.obj.strides_, idx)
               ELSE get_offset_offs(0, x.obj.strides_, x.obj.offsets_, idx)
        data == IF x.kind = "array" THEN x.obj.data_ ELSE x.obj.base_data_
    IN  heap[data].mem[off]

\* The slices a compared view is cut with along an axis of n elements: all of
\* it, every second element, all but the first, the first one, none from the
\* first on, none from the second on.
CompareSlices(org, n) ==
    {x \in {Slice(org, org + n, 1), Slice(org, org + n, 2),
            Slice(org + 1, org + n, 1), Slice(org, org + 1, 1),
            Slice(org, org, 1), Slice(org + 1, org + 1, 1)} :
        ValidSlice(x, org, n)}

RECURSIVE CompareSliceTuples(_, _)
CompareSliceTuples(org, shape) ==
    IF shape = <<>> THEN {<<>>}
    ELSE {<<sl>> \o t : sl \in CompareSlices(org, Head(shape)),
                        t \in CompareSliceTuples(org, Tail(shape))}

\* ---------------- SpecEqual: two arrays, or two views of one array, compared
InitEqual == InitArray /\ nops = MaxOps /\ LayoutIdle /\ ViewIdle

NextEqual ==
    \/ \E a \in ArrIds, s \in ArrayShapes :
           /\ view.life = "none" /\ view2.life = "none"
           /\ Construct(a, s, DefaultValue)
    \/ \E a \in ArrIds, idx \in [1..N -> 0..(MaxDim + 1)], v \in Values :
           /\ view.life = "none" /\ view2.life = "none"
           /\ \A i \in 1..N : idx[i] \in origin..(origin + arr[a].shape_[i] - 1)
           /\ Write(a, idx, v)
    \/ \E M \in 1..N :
           \E sls \in CompareSliceTuples(origin, SubSeq(arr[1].shape_, 1, M)),
              l \in LastDims(origin, arr[1].shape_, M) :
               arr[2].life = "none" /\ ViewOfSlices(1, sls, l)
    \/ \E M \in 1..N :
           \E sls \in CompareSliceTuples(origin, SubSeq(arr[1].shape_, 1, M)),
              l \in LastDims(origin, arr[1].shape_, M) :
               arr[2].life = "none" /\ View2OfSlices(1, sls, l)

SpecEqual == InitEqual /\ [][NextEqual]_vars

\* The objects that exist in the current state, as operands.
Operands ==
    {ArrayOperand(a) : a \in {b \in ArrIds : arr[b].life = "live"}}
    \cup (IF view.life = "live" THEN {ViewOperand(1, view)} ELSE {})
    \cup (IF view2.life = "live" THEN {ViewOperand(2, view2)} ELSE {})

\* Equal shapes and equal elements at every multi-index.
ElementwiseEqual(lhs, rhs) ==
    /\ lhs.shape_ = rhs.shape_
    /\ \A idx \in Positions(lhs.shape_) :
           operand_at(lhs, idx) = operand_at(rhs, idx)

\* -------------------------------------------------------------------- C16
\* C16: operator== of two arrays, two views, or an array and a view, of one
\* rank, returns true exactly when the shapes are equal and the elements at
\* every multi-index are equal, whatever the strides and offsets of the
\* operands.
C16_EqualityIsElementwise ==
    \A lhs \in Operands, rhs \in Operands :
        Len(lhs.shape_) = Len(rhs.shape_) =>
            operator_equal(lhs, rhs) = {ElementwiseEqual(lhs, rhs)}

\* The same statement for operands none of whose extents is 0.
C16_NonEmptyOperands ==
    \A lhs \in Operands, rhs \in Operands :
        (Len(lhs.shape_) = Len(rhs.shape_)
            /\ AllExtentsPositive(lhs.shape_)
            /\ AllExtentsPositive(rhs.shape_)) =>
            operator_equal(lhs, rhs) = {ElementwiseEqual(lhs, rhs)}

\* -------------------------------------------- arrays of different layouts
OtherOrder(ord) == IF ord = "row_major" THEN "column_major" ELSE "row_major"

\* ndarray<T,N,Order2>(std::initializer_list<array_item<T>> list) for an array
\* whose Order template argument is ord instead of the run's order: the
\* constructor of ConstructList with calculate_strides of that layout.
ConstructListAs(ord, a, lit, shape0, ind0) ==
    /\ Step
    /\ arr[a].life = "none"
    /\ LET r == dim_from_initializer_list(shape0, lit, 0)
           cs == calculate_strides(ord, r.shape_)
           p == NewBlock(heap)
           h1 == create(heap, cs.size)
           d == data_from_initializer_list(cs.strides, cs.size, lit,
                    [mem |-> h1[p].mem, indices |-> ind0, oob |-> FALSE], 0, 0)
       IN  IF r.err # "none"
           THEN /\ UNCHANGED <<heap, arr>>
                /\ last' = [op |-> "construct_list_as", a |-> a, lit |-> lit,
                            threw |-> r.err]
           ELSE /\ CanAlloc(heap)
                /\ heap' = [h1 EXCEPT ![p].mem = d.mem]
                /\ arr' = [arr EXCEPT ![a] =
                       [life |-> "live", data_ |-> p, num_elements_ |-> cs.size,
                        capacity_ |-> cs.size, shape_ |-> r.shape_,
                        strides_ |-> cs.strides]]
                /\ last' = [op |-> "construct_list_as", a |-> a, lit |-> lit,
                            threw |-> "none"]
    /\ UNCHANGED <<order, origin>>
    /\ UNCHANGED <<layoutVars, viewVars, iterVars>>

\* ---------------- SpecMixed: array 1 of the run's layout, array 2 of the other
InitMixed == InitArray /\ nops = MaxLitOps /\ LayoutIdle /\ ViewIdle

NextMixed ==
    \/ \E lit \in Literals(Values) :
           ConstructList(1, lit, Fill(N, 0), Fill(N, 0))
    \/ \E lit \in Literals(Values) :
           ConstructListAs(OtherOrder(order), 2, lit, Fill(N, 0), Fill(N, 0))

SpecMixed == InitMixed /\ [][NextMixed]_vars

\* Array a holds exactly the leaves of the rectangular literal lit.
BuiltFrom(a, lit) ==
    /\ Rectangular(lit, N)
    /\ arr[a].life = "live"
    /\ arr[a].shape_ = LitShape(lit)
    /\ \A idx \in Positions(arr[a].shape_) :
           operand_at(ArrayOperand(a), idx) = Leaf(lit, idx)

\* -------------------------------------------------------------------- C17
\* C17: an array of one layout and an array of the other layout, built from
\* the same rectangular nested literal, compare equal under operator=='s
\* comparison.
C17_EqualAcrossLayouts ==
    (last.op = "construct_list_as" /\ BuiltFrom(1, last.lit)
        /\ BuiltFrom(2, last.lit)) =>
        operator_equal(ArrayOperand(1), ArrayOperand(2)) = {TRUE}

\* ---------------- SpecDeepLiteral: literals nested up to N + 1 levels deep
\* The literals of one leaf value whose lists nest up to N + 1 deep: an
\* array_item takes an initializer list at any depth.
DeepLiterals ==
    {List(items) : items \in SeqsUpTo(LitItems({DefaultValue}, N))}

InitDeepLiteral == InitArray /\ nops = MaxDeepOps /\ LayoutIdle /\ ViewIdle

NextDeepLiteral ==
    \E lit \in DeepLiterals, shape0 \in Garbage :
        \E ind0 \in IndicesGarbage(lit) : ConstructList(1, lit, shape0, ind0)

SpecDeepLiteral == InitDeepLiteral /\ [][NextDeepLiteral]_vars

\* All sibling items have the same nestedness and the same sizes, at every
\* depth and in every subtree.
RECURSIVE Uniform(_)
Uniform(item) ==
    ~item.is_array
    \/ \A i \in 1..Len(item.v) :
           /\ Uniform(item.v[i])
           /\ item.v[i].is_array = item.v[1].is_array
           /\ LitShape(item.v[i]) = LitShape(item.v[1])

\* -------------------------------------------------------------------- C20
\* C20: constructing an array from a nested literal in which, at some depth
\* of some subtree, two sibling items differ in size or in nestedness, throws
\* invalid_argument, and no memory has been allocated.
C20_NonRectangularRejected ==
    (last.op = "construct_list" /\ ~Uniform(last.lit)) =>
        /\ last.threw # "none"
        /\ \A p \in DOMAIN heap : heap[p].st = "unused"

\* -------------------------------------------------------------------- C21
\* C21: constructing a rank-N array from a rectangular nested literal whose
\* nesting depth is not N, shallower or deeper, with any number of items at
\* each level, throws invalid_argument, and no memory has been allocated.
C21_WrongDepthRejected ==
    (last.op = "construct_list"
        /\ \E d \in (1..(N + 1)) \ {N} : Rectangular(last.lit, d)) =>
        /\ last.threw # "none"
        /\ \A p \in DOMAIN heap : heap[p].st = "unused"

\* ------------------------------------------------------------- addressing
\* T& ndarray::operator()(const std::array<size_t,N>& indices):
\* off = get_offset(strides_, indices); assert(off < size()); data_[off].
\* The outcome is recorded: whether the assertion failed and, if not, the
\* flat offset of the element returned.
At(a, indices) ==
    /\ Step
    /\ arr[a].life = "live"
    /\ StorageValid(a)
    /\ LET off == Wrap(get_offset(origin, arr[a].strides_, indices))
       IN  last' = [op |-> "at", a |-> a, indices |-> indices,
                    shape |-> arr[a].shape_,
                    asserted |-> ~(off < arr[a].num_elements_), off |-> off]
    /\ UNCHANGED <<order, origin, heap, arr>>
    /\ UNCHANGED <<layoutVars, viewVars, iterVars>>

\* const T& ndarray_view_base::operator()(const std::array<size_t,M>& indices):
\* off = get_offset(strides_, offsets_, indices); assert(off < base_size()).
ViewAt(indices) ==
    /\ Step
    /\ view.life = "live"
    /\ LET off == Wrap(get_offset_offs(origin, view.strides_, view.offsets_,
                                       indices))
       IN  last' = [op |-> "view_at", a |-> 1, indices |-> indices,
                    shape |-> view.shape_,
                    asserted |-> ~(off < view.base_size_), off |-> off]
    /\ UNCHANGED <<order, origin, heap, arr, view, view2>>
    /\ UNCHANGED <<layoutVars, iterVars>>

\* ---------------- SpecAccess: an array and a view, addressed with any indices
InitAccess == InitArray /\ nops = MaxViewOps /\ LayoutIdle /\ ViewIdle

NextAccess ==
    \/ \E s \in ArrayShapes : Construct(1, s, DefaultValue)
    \/ \E M \in 1..N :
           \E sls \in CompareSliceTuples(origin, SubSeq(arr[1].shape_, 1, M)),
              l \in LastDims(origin, arr[1].shape_, M) :
               ViewOfSlices(1, sls, l)
    \/ \E idx \in [1..N -> 0..(MaxDim + 2)] : At(1, idx)
    \/ \E idx \in [1..Len(view.shape_) -> 0..(MaxDim + 2)] : ViewAt(idx)

SpecAccess == InitAccess /\ [][NextAccess]_vars

\* Some component of indices lies outside its axis of shape.
OutOfRange(indices, shape) ==
    \E i \in 1..Len(shape) :
        indices[i] < origin \/ indices[i] >= origin + shape[i]

\* -------------------------------------------------------------------- C22
\* C22: addressing an array or a view with an index tuple one of whose
\* components lies outside its axis extent fails the assertion; it never
\* returns a reference to an element.
C22_OutOfRangeAsserts ==
    (last.op \in {"at", "view_at"} /\ OutOfRange(last.indices, last.shape)) =>
        last.asserted

\* In-range index tuples never fail the assertion.
C22_InRangePasses ==
    (last.op \in {"at", "view_at"} /\ ~OutOfRange(last.indices, last.shape)) =>
        ~last.asserted

\* -------------------------------------------------------------------- C23
\* C23: resizing an owning array to its current shape, with any fill value,
\* leaves its shape, strides, size, capacity, storage block and the value of
\* every cell unchanged, also when its capacity exceeds its size.
C23_ResizeToSameShape ==
    (last.op = "resize" /\ last.shape = last.old.shape_) =>
        /\ arr[last.a] = last.old
        /\ MemOf(heap, arr[last.a].data_) = last.oldmem
        /\ AllocCount(heap) = last.blocks

\* -------------------------------------------------------------- ownership
\* ndarray(const ndarray& other): a new block of other.size() cells, filled
\* with other's cells; shape_ and strides_ copied.
CopyConstruct(a, b) ==
    /\ Step
    /\ a # b
    /\ arr[a].life = "none" /\ arr[b].life = "live"
    /\ StorageValid(b)
    /\ CanAlloc(heap)
    /\ LET num == arr[b].num_elements_
           p == NewBlock(heap)
       IN  /\ heap' = copy_fill(create(heap, num), p, MemOf(heap, arr[b].data_),
                                num, num, DefaultValue)
           /\ arr' = [arr EXCEPT ![a] =
                  [life |-> "live", data_ |-> p, num_elements_ |-> num,
                   capacity_ |-> num, shape_ |-> arr[b].shape_,
                   strides_ |-> arr[b].strides_]]
    /\ last' = [op |-> "copy_construct", a |-> a, b |-> b, old |-> arr[b],
                olda |-> arr[a]]
    /\ UNCHANGED <<order, origin>>
    /\ UNCHANGED <<layoutVars, viewVars, iterVars>>

\* ndarray(ndarray&& other): the members are taken over; other is left with
\* data_ = nullptr, size 0, capacity 0, shape and strides filled with 0.
MoveConstruct(a, b) ==
    /\ Step
    /\ a # b
    /\ arr[a].life = "none" /\ arr[b].life = "live"
    /\ arr' = [arr EXCEPT ![a] = arr[b],
                          ![b] = [NoArray EXCEPT !.life = "live"]]
    /\ last' = [op |-> "move_construct", a |-> a, b |-> b, old |-> arr[b],
                olda |-> arr[a]]
    /\ UNCHANGED <<order, origin, heap>>
    /\ UNCHANGED <<layoutVars, viewVars, iterVars>>

\* ndarray& operator=(ndarray&& other) as AssignMove, recording the operands
\* as they were before the assignment.
MoveAssign(a, b) ==
    /\ Step
    /\ a # b
    /\ arr[a].life = "live" /\ arr[b].life = "live"
    /\ LET r == swap(arr[a], arr[b])
       IN  arr' = [arr EXCEPT ![a] = r.self, ![b] = r.other]
    /\ last' = [op |-> "move_assign", a |-> a, b |-> b, old |-> arr[b],
                olda |-> arr[a]]
    /\ UNCHANGED <<order, origin, heap>>
    /\ UNCHANGED <<layoutVars, viewVars, iterVars>>

\* The shape constructor when allocate() hands out again the address of a
\* block released earlier: the block is live once more, with new cells.
ConstructReusing(a, shape, val) ==
    /\ Step
    /\ arr[a].life = "none"
    /\ \E p \in Blocks :
           /\ heap[p].st = "freed"
           /\ LET cs == calculate_strides(order, shape)
              IN  /\ heap' = [heap EXCEPT ![p] =
                         [st |-> "live", cap |-> cs.size,
                          mem |-> [k \in 0..(cs.size - 1) |-> val],
                          rel |-> 0]]
                  /\ arr' = [arr EXCEPT ![a] =
                         [life |-> "live", data_ |-> p,
                          num_elements_ |-> cs.size, capacity_ |-> cs.size,
                          shape_ |-> shape, strides_ |-> cs.strides]]
    /\ last' = [op |-> "construct", a |-> a]
    /\ UNCHANGED <<order, origin>>
    /\ UNCHANGED <<layoutVars, viewVars, iterVars>>

\* ndarray_view_base::assign(data, size, shape, strides) with the members of
\* array a: the view is re-seated on a.
ViewAssign(a) ==
    /\ Step
    /\ arr[a].life = "live"
    /\ view.life = "live"
    /\ view' = [view EXCEPT !.kind = "alias", !.base_data_ = arr[a].data_,
                            !.base_size_ = arr[a].num_elements_,
                            !.shape_ = arr[a].shape_,
                            !.strides_ = arr[a].strides_,
                            !.offsets_ = Fill(N, 0),
                            !.slices = <<>>, !.last_dim = <<>>]
    /\ last' = [op |-> "view_assign", a |-> a]
    /\ UNCHANGED <<order, origin, heap, arr, view2>>
    /\ UNCHANGED <<layoutVars, iterVars>>

\* The end of a view's lifetime: the implicit destructor touches no storage.
ViewDestroy ==
    /\ Step
    /\ view.life = "live"
    /\ view' = [view EXCEPT !.life = "dead"]
    /\ last' = [op |-> "view_destroy"]
    /\ UNCHANGED <<order, origin, heap, arr, view2>>
    /\ UNCHANGED <<layoutVars, iterVars>>

\* ---------------- SpecOwnership: two arrays and a view, copied, moved, resized
\* The extents the arrays of this specification take.
OwnShapes == {<<0, 0>>, <<1, 1>>, <<1, 2>>}

InitOwnership == InitArray /\ origin = 0 /\ nops = MaxOps /\ LayoutIdle
                 /\ ViewIdle

NextOwnership ==
    \/ \E a \in ArrIds, s \in OwnShapes : Construct(a, s, DefaultValue)
    \/ \E a \in ArrIds, s \in OwnShapes : ConstructReusing(a, s, DefaultValue)
    \/ \E a, b \in ArrIds : CopyConstruct(a, b)
    \/ \E a, b \in ArrIds : MoveConstruct(a, b)
    \/ \E a, b \in ArrIds : AssignCopy(a, b)
    \/ \E a, b \in ArrIds : MoveAssign(a, b)
    \/ \E a, b \in ArrIds : Swap(a, b)
    \/ \E a \in ArrIds, s \in OwnShapes : Resize(a, s, DefaultValue)
    \/ \E a \in ArrIds : ViewOfArray(a)
    \/ \E a \in ArrIds : ViewAssign(a)
    \/ ViewDestroy

SpecOwnership == InitOwnership /\ [][NextOwnership]_vars

\* -------------------------------------------------------------------- C24
\* C24: in every state reached by construction, copy construction and
\* assignment, move construction and assignment, swap and resize, no two live
\* owning arrays reference the same storage block, and a step that constructs,
\* assigns or destroys a view leaves the heap as it was.
C24_ExclusiveOwnership ==
    /\ [](\A a, b \in ArrIds :
             (a # b /\ arr[a].life = "live" /\ arr[b].life = "live"
                 /\ arr[a].data_ # NullPtr) => arr[a].data_ # arr[b].data_)
    /\ [][view' # view => heap' = heap]_vars

\* The members of an owning array apart from its lifetime.
Members(x) == [x EXCEPT !.life = "live"]

\* -------------------------------------------------------------------- C25
\* C25: after a move construction or a move assignment the destination has
\* the storage, shape, strides, size and capacity the source had, and the
\* source is empty: no storage, size 0, capacity 0, all extents 0.
C25_MoveLeavesSourceEmpty ==
    last.op \in {"move_construct", "move_assign"} =>
        /\ Members(arr[last.a]) = Members(last.old)
        /\ arr[last.b].data_ = NullPtr
        /\ arr[last.b].num_elements_ = 0
        /\ arr[last.b].capacity_ = 0
        /\ arr[last.b].shape_ = Fill(N, 0)

\* The same for move construction alone.
C25_MoveConstruction ==
    last.op = "move_construct" =>
        /\ Members(arr[last.a]) = Members(last.old)
        /\ arr[last.b].data_ = NullPtr
        /\ arr[last.b].num_elements_ = 0
        /\ arr[last.b].capacity_ = 0
        /\ arr[last.b].shape_ = Fill(N, 0)

\* ---------------------------------------------------------- origin policy
\* The members the constructor of ViewOfSlices computes, for an array with
\* the given shape and strides under origin org and layout ord.
view_of_slices(ord, org, shape, strides, slices, last_dim) ==
    LET M == Len(slices)
        indices == [i \in 1..Len(shape) |->
                       IF i <= M THEN org ELSE last_dim[i - M]]
        rel == get_offset(org, strides, indices)
        strides0 == [i \in 1..M |-> strides[i]]
    IN  [shape_ |-> [i \in 1..M |-> slice_length(slices[i], org, shape[i])],
         strides_ |-> [i \in 1..M |-> strides0[i] * slices[i].step_],
         offsets_ |-> calculate_offsets(ord, org, rel, strides0, slices)]

\* The slice whose given bounds are each one less; unspecified bounds stay.
SliceOneLess(sl) ==
    Slice(IF sl.start_ = Npos THEN Npos ELSE sl.start_ - 1,
          IF sl.stop_ = Npos THEN Npos ELSE sl.stop_ - 1, sl.step_)

OneLess(t) == [i \in 1..Len(t) |-> t[i] - 1]

OneMore(t) == [i \in 1..Len(t) |-> t[i] + 1]

\* -------------------------------------------------------------------- C26
\* C26: a one-based array addressed with indices (i_0+1, .., i_{N-1}+1)
\* resolves to the flat offset of the zero-based array of the same shape and
\* layout addressed with (i_0, .., i_{N-1}); a one-based view built with
\* slice bounds and fixed indices each one greater has the shape, strides and
\* offsets of the zero-based view and resolves every index, one greater, to
\* the same flat offset; an unspecified slice start is the first element of
\* its axis under both policies.
C26_OriginAppliedUniformly ==
    (origin = 1 /\ arr[1].life = "live") =>
        /\ \A j \in Positions(arr[1].shape_) :
               get_offset(1, arr[1].strides_, OneMore(j))
                   = get_offset(0, arr[1].strides_, j)
        /\ (view.life = "live" /\ view.kind = "slices") =>
               LET z == view_of_slices(order, 0, arr[1].shape_,
                            arr[1].strides_,
                            [i \in 1..Len(view.slices) |->
                                SliceOneLess(view.slices[i])],
                            OneLess(view.last_dim))
                   o == view_of_slices(order, 1, arr[1].shape_,
                            arr[1].strides_, view.slices, view.last_dim)
               IN  /\ view.shape_ = o.shape_ /\ view.strides_ = o.strides_
                   /\ view.offsets_ = o.offsets_
                   /\ view.shape_ = z.shape_
                   /\ view.strides_ = z.strides_
                   /\ view.offsets_ = z.offsets_
                   /\ \A j \in Positions(view.shape_) :
                          get_offset_offs(1, view.strides_, view.offsets_,
                                          OneMore(j))
                              = get_offset_offs(0, z.strides_, z.offsets_, j)
                   /\ \A i \in 1..Len(view.slices) :
                          view.slices[i].start_ = Npos =>
                              view.offsets_[i]
                                  = (IF i = FastAxis(order, view.shape_)
                                     THEN get_offset(1, arr[1].strides_,
                                              [k \in 1..N |->
                                                  IF k <= Len(view.slices)
                                                  THEN 1
                                                  ELSE view.last_dim[
                                                      k - Len(view.slices)]])
                                     ELSE 0)

\* A one-based view of two elements or more, cut with an unspecified start
\* on one axis and a start past the first element on the other.
C26_Witness ==
    /\ origin = 1
    /\ view.life = "live" /\ view.kind = "slices"
    /\ Len(view.slices) = 2
    /\ view.slices[1].start_ = Npos
    /\ view.slices[2].start_ = 2
    /\ Product(view.shape_) >= 2
    /\ Sum(view.offsets_) > 0

\* ---------------- SpecInvalidate: a view of an array that is resized, assigned
\* The extents the arrays of this specification take.
InvShapes == {<<0, 0>>, <<1, 1>>, <<1, 2>>, <<2, 2>>}

InitInvalidate == InitArray /\ nops = MaxOps /\ LayoutIdle /\ ViewIdle

NextInvalidate ==
    \/ \E a \in ArrIds, s \in InvShapes : Construct(a, s, DefaultValue)
    \/ ViewOfArray(1)
    \/ \E M \in 1..N :
           \E sls \in CompareSliceTuples(origin, SubSeq(arr[1].shape_, 1, M)),
              l \in LastDims(origin, arr[1].shape_, M) :
               ViewOfSlices(1, sls, l)
    \/ \E s \in InvShapes : Resize(1, s, DefaultValue)
    \/ AssignCopy(1, 2)
    \/ MoveAssign(1, 2)
    \/ \E lit \in StructLiterals :
           \E ind0 \in IndicesGarbage(lit) : AssignList(1, lit, ind0)

SpecInvalidate == InitInvalidate /\ [][NextInvalidate]_vars

\* -------------------------------------------------------------------- C27
\* C27: a step that resizes or reassigns an owning array leaves the view's
\* base pointer, base size, shape, strides and offsets as they were; so after
\* a resize that allocated a new block a view that was built on the array
\* before refers to the released old block and no longer to the array's
\* storage, and after a resize that allocated none it still has the array's
\* data pointer as its base.
C27_ViewsNotTracked ==
    /\ [][arr' # arr => view' = view]_vars
    /\ []((last.op = "resize" /\ view.life = "live"
              /\ view.base_data_ # NullPtr
              /\ view.base_data_ = last.old.data_) =>
             IF AllocCount(heap) > last.blocks
             THEN /\ heap[view.base_data_].st = "freed"
                  /\ view.base_data_ # arr[last.a].data_
             ELSE view.base_data_ = arr[last.a].data_)

\* A displaced view of the array whose block a resize has just replaced.
C27_Witness ==
    /\ last.op = "resize"
    /\ AllocCount(heap) > last.blocks
    /\ view.life = "live" /\ view.kind = "slices"
    /\ view.base_data_ = last.old.data_
    /\ Sum(view.offsets_) > 0

\* -------------------------------------------------------------------- C29
\* C29: a nested-literal assignment that fails shape validation leaves the
\* array as it was: the same storage block, still allocated, and the same
\* shape, strides, size and capacity.
C29_FailedAssignLeavesArray ==
    [][(last'.op = "assign_list" /\ last'.threw # "none") =>
          /\ arr'[last'.a] = arr[last'.a]
          /\ heap' = heap]_vars

\* -------------------------------------------------------------------- C30
\* ndarray_view_base::size(): the product of the extents.
view_size(v) == Product(v.shape_)

\* ndarray_view_base::empty(): shape(0) == 0, the first extent alone.
view_empty(v) == v.shape_[1] = 0

\* C30: for a view of any rank empty() is true exactly when size() is 0,
\* whichever axis has extent 0.
C30_EmptyIffSizeZero ==
    view.life = "live" => (view_empty(view) <=> view_size(view) = 0)

\* ---------------- The compare-based equality of the layout strategies
\* (src/unnamed/part_000).  There a slice is (start, size, stride), a view
\* keeps its offsets in index units, and an element is addressed by
\* sum((indices[i] + offsets[i]) * strides[i]).
LegacySlice(start, size, stride) ==
    [start_ |-> start, size_ |-> size, stride_ |-> stride]

\* get_offset<N,N,zero_based>(strides, offsets, indices)
compare_get_offset(strides, offsets, indices) ==
    Wrap(Sum([i \in 1..Len(indices) |->
                 (indices[i] + offsets[i]) * strides[i]]))

\* const_ndarray_view(ndarray& a, const slices_type& slices), m == N
const_ndarray_view(a, org, slices) ==
    [life |-> "live", kind |-> "const_view",
     base_data_ |-> a.data_, base_size_ |-> a.num_elements_,
     shape_ |-> [i \in 1..N |-> slices[i].size_ \div slices[i].stride_],
     strides_ |-> [i \in 1..N |-> a.strides_[i] * slices[i].stride_],
     offsets_ |-> [i \in 1..N |-> rebase_to_zero(org, slices[i].start_)]]

\* The largest number of entries the traversal stack of compare holds: below
\* entries lie under the entry that is popped, and each popped entry pushes
\* one entry per index of the next axis of the descent.
RECURSIVE stack_peak(_, _)
stack_peak(ds, below) ==
    IF ds = <<>> \/ Head(ds) = 0 THEN below + 1
    ELSE stack_peak(Tail(ds), below + Head(ds) - 1)

\* The axes compare pushes entries for, outermost first: row_major descends
\* from axis 0 and runs the inner loop on axis N-1, column_major descends from
\* axis N-1 and runs the inner loop on axis 0.
compare_descent(ord, dim) ==
    IF ord = "row_major" THEN SubSeq(dim, 1, Len(dim) - 1)
    ELSE [i \in 1..(Len(dim) - 1) |-> dim[Len(dim) + 1 - i]]

\* The inner loops of compare, over the pairs of offsets in the order they are
\* visited: if (*p1 != *p2) return false; the results it can return.
RECURSIVE compare_walk(_, _, _)
compare_walk(data1, data2, pairs) ==
    IF pairs = <<>> THEN {TRUE}
    ELSE LET A == cursor_deref([kind |-> "ptr", data_ |-> data1,
                                it_ |-> Head(pairs)[1]])
             B == cursor_deref([kind |-> "ptr", data_ |-> data2,
                                it_ |-> Head(pairs)[2]])
         IN  (IF \E x \in A, y \in B : x # y THEN {FALSE} ELSE {})
             \cup (IF \E x \in A, y \in B : x = y
                   THEN compare_walk(data1, data2, Tail(pairs))
                   ELSE {})

\* row_major::compare and column_major::compare: the results they can return.
\* The stack has prod(dim1[0..N-2]) entries in both; writing an entry past
\* it is undefined, and either result can follow.
compare(ord, data1, dim1, strides1, offsets1, data2, dim2, strides2, offsets2) ==
    IF dim1 # dim2 THEN {FALSE}
    ELSE IF stack_peak(compare_descent(ord, dim1), 0)
               > Product(SubSeq(dim1, 1, Len(dim1) - 1))
         THEN {TRUE, FALSE}
         ELSE compare_walk(data1, data2,
                  [k \in 1..Product(dim1) |->
                      LET indices == CanonicalIndex(ord, dim1, k - 1)
                      IN  <<compare_get_offset(strides1, offsets1, indices),
                            compare_get_offset(strides2, offsets2, indices)>>])

\* operator==(const const_ndarray_view& lhs, const const_ndarray_view& rhs)
\* for two distinct objects: both operands are passed with lhs.strides().
const_view_equal(ord, lhs, rhs) ==
    compare(ord, lhs.base_data_, lhs.shape_, lhs.strides_, lhs.offsets_,
            rhs.base_data_, rhs.shape_, lhs.strides_, rhs.offsets_)

\* const_ndarray_view<T,N,Order,Base> v(a, slices);
ConstView(a, slices) ==
    /\ Step
    /\ arr[a].life = "live"
    /\ StorageValid(a)
    /\ view.life = "none"
    /\ view' = const_ndarray_view(arr[a], origin, slices)
    /\ last' = [op |-> "const_view", a |-> a, slices |-> slices]
    /\ UNCHANGED <<order, origin, heap, arr, view2>>
    /\ UNCHANGED <<layoutVars, iterVars>>

\* const_ndarray_view<T,N,Order,Base> w(a, slices);
ConstView2(a, slices) ==
    /\ Step
    /\ arr[a].life = "live"
    /\ StorageValid(a)
    /\ view2.life = "none"
    /\ view2' = const_ndarray_view(arr[a], origin, slices)
    /\ last' = [op |-> "const_view2", a |-> a, slices |-> slices]
    /\ UNCHANGED <<order, origin, heap, arr, view>>
    /\ UNCHANGED <<layoutVars, iterVars>>

\* The slices a compared view is cut with: both elements, the first, the
\* second, one element by stride 2, two elements by stride 2.
ConstViewSlices(org) ==
    {LegacySlice(org, 2, 1), LegacySlice(org, 1, 1), LegacySlice(org + 1, 1, 1),
     LegacySlice(org, 2, 2), LegacySlice(org, 4, 2)}

\* ---------------- SpecCompare: two views of one array compared by compare
InitCompare == InitArray /\ nops = MaxOps /\ LayoutIdle /\ ViewIdle

NextCompare ==
    \/ \E s \in ArrayShapes :
           view.life = "none" /\ view2.life = "none"
           /\ Construct(1, s, DefaultValue)
    \/ \E idx \in [1..N -> 0..(MaxDim + 1)], v \in Values :
           /\ view.life = "none" /\ view2.life = "none"
           /\ \A i \in 1..N : idx[i] \in origin..(origin + arr[1].shape_[i] - 1)
           /\ Write(1, idx, v)
    \/ \E sls \in [1..N -> ConstViewSlices(origin)] : ConstView(1, sls)
    \/ \E sls \in [1..N -> ConstViewSlices(origin)] : ConstView2(1, sls)

SpecCompare == InitCompare /\ [][NextCompare]_vars

\* Every element of view v lies inside the block of its array.
ElementsInBlock(v) ==
    \A idx \in Positions(v.shape_) :
        compare_get_offset(v.strides_, v.offsets_, idx) < v.base_size_

\* The element of view v at idx, through the view's own strides and offsets.
const_view_at(v, idx) ==
    heap[v.base_data_].mem[compare_get_offset(v.strides_, v.offsets_, idx)]

\* -------------------------------------------------------------------- C28
\* C28: operator== of two views of equal shape and at least one element,
\* whose elements all lie in the array, returns true exactly when the
\* elements at every multi-index, each read through its own view's strides
\* and offsets, are equal.
C28_CompareReadsOwnStrides ==
    (/\ view.life = "live" /\ view2.life = "live"
     /\ view.shape_ = view2.shape_
     /\ \A i \in 1..N : view.shape_[i] >= 1
     /\ ElementsInBlock(view) /\ ElementsInBlock(view2)) =>
        const_view_equal(order, view, view2) =
            {\A idx \in Positions(view.shape_) :
                 const_view_at(view, idx) = const_view_at(view2, idx)}

====
